---------------------------- MODULE Spec2Model ----------------------------
(***************************************************************************)
(* Model of pyswitch's MLX Interface class (snmp/mlx/base/interface.py):   *)
(* SNMP table indexing of port-channels (LAGs) by their name, decoding of  *)
(* the member-port octet string, and line-oriented parsing of CLI output.  *)
(*                                                                         *)
(* A Python string is a sequence of one-character strings.  The Interface  *)
(* object keeps no state between calls; the state of the model is the      *)
(* last call: its arguments, the requests it handed to the transport       *)
(* callback, and how it ended.                                             *)
(***************************************************************************)
EXTENDS Integers, Sequences, FiniteSets, TLC

(***************************************************************************)
(* Bounds of the model.                                                    *)
(***************************************************************************)
\* VLAN lists of 0..MaxVlans ids are enumerated
MaxVlans == 2
\* names of every length 0..MaxNameLen over NameChars are enumerated
MaxNameLen == 2
\* octet strings of every length 0..MaxOctets over ByteVals are enumerated
MaxOctets == 4
\* CLI outputs of 0..MaxLines lines are enumerated
MaxLines == 4
\* summary tables of 0..MaxLags LAGs are enumerated
MaxLags == 2
\* outputs of the pattern-match operations have 0..MaxTextLines lines
MaxTextLines == 2

(***************************************************************************)
(* Python built-ins used by the code.                                      *)
(***************************************************************************)
Digits == <<"0", "1", "2", "3", "4", "5", "6", "7", "8", "9">>

HexDigits == Digits \o <<"a", "b", "c", "d", "e", "f">>

\* the characters that occur in LAG names of the model, with their ordinals
AsciiTable ==
  [c \in {"p", "o", "5", "0", "."} |->
     CASE c = "p" -> 112
       [] c = "o" -> 111
       [] c = "5" -> 53
       [] c = "0" -> 48
       [] c = "." -> 46]

ord(c) == AsciiTable[c]

\* chr(i); a character outside the table is shown as "\\x"
chr(i) == IF \E c \in DOMAIN AsciiTable : AsciiTable[c] = i
          THEN CHOOSE c \in DOMAIN AsciiTable : AsciiTable[c] = i
          ELSE "\\x"

RECURSIVE str(_)
\* str(n) of a non-negative int: its decimal digits
str(n) == IF n < 10 THEN <<Digits[n + 1]>>
          ELSE str(n \div 10) \o <<Digits[(n % 10) + 1]>>

DigitVal(c) == CHOOSE d \in 0..15 : HexDigits[d + 1] = c

RECURSIVE int(_, _)
\* int(s, base) of a digit string
int(s, base) == IF Len(s) = 0 THEN 0
                ELSE int(SubSeq(s, 1, Len(s) - 1), base) * base + DigitVal(s[Len(s)])

RECURSIVE split(_, _)
\* s.split(sep) for a one-character separator: empty pieces are kept
split(s, sep) ==
  IF \A i \in 1..Len(s) : s[i] # sep THEN <<s>>
  ELSE LET i == CHOOSE j \in 1..Len(s) : s[j] = sep /\ \A k \in 1..(j - 1) : s[k] # sep
       IN <<SubSeq(s, 1, i - 1)>> \o split(SubSeq(s, i + 1, Len(s)), sep)

\* sub in s
contains(s, sub) ==
  \E i \in 1..(Len(s) - Len(sub) + 1) : SubSeq(s, i, i + Len(sub) - 1) = sub

(***************************************************************************)
(* MIB columns.  The numeric prefixes are static data of SnmpMLXMib.       *)
(***************************************************************************)
mib_oid_map ==
  [col \in {"fdryLinkAggregationGroupIfList", "fdryLinkAggregationGroupIfIndex",
            "fdryLinkAggregationGroupId", "fdryLinkAggregationGroupRowStatus"} |->
     CASE col = "fdryLinkAggregationGroupIfList" -> <<"1", ".", "3", ".", "3">>
       [] col = "fdryLinkAggregationGroupIfIndex" -> <<"1", ".", "3", ".", "5">>
       [] col = "fdryLinkAggregationGroupId" -> <<"1", ".", "3", ".", "1", "2">>
       [] col = "fdryLinkAggregationGroupRowStatus" -> <<"1", ".", "3", ".", "1", "1">>]

(***************************************************************************)
(* OID key encoder: the index of a row of fdryLinkAggregationGroupTable is *)
(* the LAG name, length-prefixed, one sub-identifier per character.        *)
(***************************************************************************)
MaxKeyLen == 64

\* key_oid = [ord(c) for c in lag_name]
key_oid(lag_name) == [i \in 1..Len(lag_name) |-> ord(lag_name[i])]

RECURSIVE lag_name_oid_nodot(_)
\* the loop with the "." left out
lag_name_oid_nodot(key) ==
  IF Len(key) = 0 THEN <<>>
  ELSE lag_name_oid_nodot(SubSeq(key, 1, Len(key) - 1)) \o str(key[Len(key)])

RECURSIVE lag_name_oid(_)
\* for item in key_oid: lag_name_oid = lag_name_oid + "." + str(item)
lag_name_oid(key) ==
  IF Len(key) = 0 THEN <<>>
  ELSE lag_name_oid(SubSeq(key, 1, Len(key) - 1)) \o <<".">> \o str(key[Len(key)])

\* the check without its upper limit
key_len_ok_nomax(key_len) == ~(key_len < 1)

\* the name check every LAG-indexed operation starts with
key_len_ok(key_len) == ~(key_len < 1 \/ key_len > MaxKeyLen)

\* the index of a LAG's row, appended to the column prefix and ".":
\* str(key_len) + str(lag_name_oid).  The code repeats these lines in every
\* operation that addresses a row of the LAG table.
lag_index(lag_name) == str(Len(lag_name)) \o lag_name_oid(key_oid(lag_name))

lag_ifindex_oid(lag_name) ==
  mib_oid_map["fdryLinkAggregationGroupIfIndex"] \o <<".">> \o lag_index(lag_name)

lag_id_oid(lag_name) ==
  mib_oid_map["fdryLinkAggregationGroupId"] \o <<".">> \o lag_index(lag_name)

lag_grp_list_oid(lag_name) ==
  mib_oid_map["fdryLinkAggregationGroupIfList"] \o <<".">> \o lag_index(lag_name)

rowstatus_oid(lag_name) ==
  mib_oid_map["fdryLinkAggregationGroupRowStatus"] \o <<".">> \o lag_index(lag_name)

(***************************************************************************)
(* How a call ends, and what it asked of its collaborators.                *)
(* A message is a sequence of pieces: a literal of the code is one piece,  *)
(* text taken from the device is one piece per character.                  *)
(***************************************************************************)
Return(v) == [exc |-> "", kind |-> "return", msg |-> <<>>, val |-> v]

Raise(e, m) == [exc |-> e, kind |-> "raise", msg |-> m, val |-> <<>>]

Outcome(rq, lk, r) == [lookups |-> lk, reqs |-> rq, ret |-> r]

\* one invocation of the transport callback and what it answered
Request(h, p, answer) == [answer |-> answer, handler |-> h, payload |-> p]

NameIsNull == Raise("ValueError", <<"Port-channel name is NULL">>)

NameLength == Raise("ValueError", <<"Port-channel name should be 1-64 characters">>)

(***************************************************************************)
(* get_port_channel_ifindex, get_port_channel_id: one snmp-get on the      *)
(* LAG's row; value is what the callback answers.                          *)
(***************************************************************************)
get_port_channel_ifindex(a, value) ==
  IF a.none THEN Outcome(<<>>, <<>>, NameIsNull)
  ELSE IF ~key_len_ok(Len(a.lag_name)) THEN Outcome(<<>>, <<>>, NameLength)
  ELSE Outcome(<<Request("snmp-get", lag_ifindex_oid(a.lag_name), value)>>, <<>>,
               Return(value))

get_port_channel_id(a, value) ==
  IF a.none THEN Outcome(<<>>, <<>>, NameIsNull)
  ELSE IF ~key_len_ok(Len(a.lag_name)) THEN Outcome(<<>>, <<>>, NameLength)
  ELSE Outcome(<<Request("snmp-get", lag_id_oid(a.lag_name), value)>>, <<>>,
               Return(value))

(***************************************************************************)
(* Member-port list decoder: four octets per member port.  An octet of the *)
(* raw string is represented by its ordinal 0..255.                        *)
(***************************************************************************)
RECURSIVE hexdigits(_)
hexdigits(n) == IF n < 16 THEN <<HexDigits[n + 1]>>
                ELSE hexdigits(n \div 16) \o <<HexDigits[(n % 16) + 1]>>

\* hex(n)
hex(n) == <<"0", "x">> \o hexdigits(n)

RECURSIVE lstrip(_, _)
\* s.lstrip(chars): drops every leading character that is in chars
lstrip(s, chars) ==
  IF Len(s) > 0 /\ s[1] \in chars THEN lstrip(Tail(s), chars) ELSE s

RECURSIVE zfill(_, _)
\* s.zfill(width)
zfill(s, width) == IF Len(s) >= width THEN s ELSE zfill(<<"0">> \o s, width)

\* the conversion without zfill(2)
octet_hex_nozfill(x) == lstrip(hex(x), {"0", "x"})

\* hex(ord(x)).lstrip("0x").zfill(2)
octet_hex(x) == zfill(lstrip(hex(x), {"0", "x"}), 2)

\* l[start::4], start counted from 0
slice4(l, start) ==
  [i \in 1..((Len(l) - start + 3) \div 4) |-> l[start + 4 * (i - 1) + 1]]

Min(S) == CHOOSE m \in S : \A n \in S : m <= n

\* the groups taken from the last one to the first
zip4_reversed(m_list) ==
  LET s0 == slice4(m_list, 0)
      s1 == slice4(m_list, 1)
      s2 == slice4(m_list, 2)
      s3 == slice4(m_list, 3)
      n == Min({Len(s0), Len(s1), Len(s2), Len(s3)})
  IN [i \in 1..n |-> s0[n + 1 - i] \o s1[n + 1 - i] \o s2[n + 1 - i] \o s3[n + 1 - i]]

\* ''.join(x) for x in zip(m_list[0::4], m_list[1::4], m_list[2::4], m_list[3::4])
zip4(m_list) ==
  LET s0 == slice4(m_list, 0)
      s1 == slice4(m_list, 1)
      s2 == slice4(m_list, 2)
      s3 == slice4(m_list, 3)
      n == Min({Len(s0), Len(s1), Len(s2), Len(s3)})
  IN [i \in 1..n |-> s0[i] \o s1[i] \o s2[i] \o s3[i]]

\* A member index is an unsigned 32-bit value, beyond the integers of the
\* checker: it is kept as two 16-bit limbs, value = hi * 65536 + lo.
Limbs(h, l) == [hi |-> h, lo |-> l]

RECURSIVE int16digits(_)
\* the positional value of a string of hex digits
int16digits(s) ==
  IF Len(s) = 0 THEN Limbs(0, 0)
  ELSE LET acc == int16digits(SubSeq(s, 1, Len(s) - 1))
           low == acc.lo * 16 + DigitVal(s[Len(s)])
       IN Limbs(acc.hi * 16 + (low \div 65536), low % 65536)

\* int(c, 16) of a string that starts with "0x"
int16(c) == int16digits(SubSeq(c, 3, Len(c)))

member_list(lag_grp_list) ==
  LET m_list == [i \in 1..Len(lag_grp_list) |-> octet_hex(lag_grp_list[i])]
      hex_list == [i \in 1..Len(zip4(m_list)) |-> <<"0", "x">> \o zip4(m_list)[i]]
  IN [i \in 1..Len(hex_list) |-> int16(hex_list[i])]

Range(f) == {f[i] : i \in DOMAIN f}

Chars_ethernet == <<"e", "t", "h", "e", "r", "n", "e", "t">>

\* index -> name lookup of the base class: the names of the given indices
get_interface_id_name_mapping(ids) ==
  [i \in Range(ids) |-> Chars_ethernet \o str(i.hi) \o <<"/">> \o str(i.lo)]

get_port_channel_member_ports(a, lag_grp_list) ==
  IF a.none THEN Outcome(<<>>, <<>>, NameIsNull)
  ELSE IF ~key_len_ok(Len(a.lag_name)) THEN Outcome(<<>>, <<>>, NameLength)
  ELSE Outcome(<<Request("snmp-get", lag_grp_list_oid(a.lag_name), lag_grp_list)>>,
               <<member_list(lag_grp_list)>>,
               Return(get_interface_id_name_mapping(member_list(lag_grp_list))))

(***************************************************************************)
(* get_lag_id_name_map: walk of the LAG table, row index decoded back to   *)
(* the LAG name.  remove_port_channel: destroy the row of a LAG id.        *)
(***************************************************************************)
\* the decoding without value.pop(0)
row_lag_name_nopop(row_id) ==
  LET value == split(row_id, ".")
  IN [i \in 1..Len(value) |-> chr(int(value[i], 10))]

\* value = value.split('.'); value.pop(0); ''.join(chr(int(x)) for x in value)
row_lag_name(row_id) ==
  LET value == Tail(split(row_id, "."))
  IN [i \in 1..Len(value) |-> chr(int(value[i], 10))]

RECURSIVE first_lag_name_last(_, _)
\* the loop that goes on after a match, so that the last match wins
first_lag_name_last(rows, lag_id) ==
  IF Len(rows) = 0 THEN [found |-> FALSE, lag_name |-> <<>>]
  ELSE LET rest == first_lag_name_last(Tail(rows), lag_id)
       IN IF rest.found THEN rest
          ELSE IF str(Head(rows).lag_id) = lag_id
          THEN [found |-> TRUE, lag_name |-> row_lag_name(Head(rows).row_id)]
          ELSE rest

RECURSIVE first_lag_name(_, _)
\* the loop over lag_group_table.rows; found = FALSE is Python's None
first_lag_name(rows, lag_id) ==
  IF Len(rows) = 0 THEN [found |-> FALSE, lag_name |-> <<>>]
  ELSE IF str(Head(rows).lag_id) = lag_id
       THEN [found |-> TRUE, lag_name |-> row_lag_name(Head(rows).row_id)]
       ELSE first_lag_name(Tail(rows), lag_id)

WalkRequest(rows) == Request("snmp-walk", <<"fdryLinkAggregationGroupEntry", 12>>, rows)

get_lag_id_name_map(lag_id, rows) ==
  LET r == first_lag_name(rows, lag_id)
  IN Outcome(<<WalkRequest(rows)>>, <<>>, Return(r))

FailedToDelete(m) == Raise("ValueError", <<"Failed to delete Port-channel!! ">> \o m)

remove_port_channel(port_int, rows, ret_value) ==
  LET found == get_lag_id_name_map(str(port_int), rows).ret.val
  IN IF ~found.found
     THEN Outcome(<<WalkRequest(rows)>>, <<>>, FailedToDelete(NameIsNull.msg))
     ELSE IF ~key_len_ok(Len(found.lag_name))
     THEN Outcome(<<WalkRequest(rows)>>, <<>>, FailedToDelete(NameLength.msg))
     ELSE Outcome(<<WalkRequest(rows),
                    Request("snmp-set", <<rowstatus_oid(found.lag_name), 6>>, ret_value)>>,
                  <<>>, Return(ret_value))

(***************************************************************************)
(* get_port_channel_list: header-delimited parse of 'show lag brief'.      *)
(* The loop over the lines of the output is followed line by line; st is   *)
(* the state of the loop: the lines not yet read, start_parse, the records *)
(* collected, whether the loop was left by break, and the exception an     *)
(* iteration raised ("" for none).                                         *)
(***************************************************************************)
Chars_Deploy == <<"D", "e", "p", "l", "o", "y">>

Chars_Error == <<"E", "r", "r", "o", "r">>

\* item.split(): the maximal runs of non-blank characters
split_ws(item) == SelectSeq(split(item, " "), LAMBDA w : Len(w) > 0)

LoopStart(output) ==
  [done |-> FALSE, exc |-> "", items |-> split(output, "\n"), po_list |-> <<>>,
   start_parse |-> FALSE]

\* the tuple with the primary port read one column to the left
po_tuple_trunk(lag_str_list) ==
  <<lag_str_list[1], lag_str_list[2], lag_str_list[4], lag_str_list[3] = <<"Y">>>>

\* (lag_name, lag_type, primary_port, deploy), lines 501-511
po_tuple(lag_str_list) ==
  <<lag_str_list[1], lag_str_list[2], lag_str_list[5], lag_str_list[3] = <<"Y">>>>

\* the iteration with 'continue' where the code has 'break'
lag_brief_step_continue(st) ==
  LET item == Head(st.items)
      rest == [st EXCEPT !.items = Tail(st.items)]
      lag_str_list == split_ws(item)
  IN IF contains(item, Chars_Deploy) THEN [rest EXCEPT !.start_parse = TRUE]
     ELSE IF ~st.start_parse THEN rest
     ELSE IF item = <<>> THEN rest
     ELSE IF Len(lag_str_list) < 5 THEN [rest EXCEPT !.exc = "IndexError"]
     ELSE [rest EXCEPT !.po_list = Append(@, po_tuple(lag_str_list))]

\* one iteration of: for item in output.split("\n")
lag_brief_step(st) ==
  LET item == Head(st.items)
      rest == [st EXCEPT !.items = Tail(st.items)]
      lag_str_list == split_ws(item)
  IN IF contains(item, Chars_Deploy) THEN [rest EXCEPT !.start_parse = TRUE]
     ELSE IF ~st.start_parse THEN rest
     ELSE IF item = <<>> THEN [rest EXCEPT !.done = TRUE]
     ELSE IF Len(lag_str_list) < 5 THEN [rest EXCEPT !.exc = "IndexError"]
     ELSE [rest EXCEPT !.po_list = Append(@, po_tuple(lag_str_list))]

\* the loop is over: no line left, left by break, or an exception
LoopOver(st) == st.done \/ st.exc # "" \/ Len(st.items) = 0

ListIndexOutOfRange == Raise("IndexError", <<"list index out of range">>)

Running == [exc |-> "", kind |-> "running", msg |-> <<>>, val |-> <<>>]

(***************************************************************************)
(* get_lacp_member_info: scan of 'show lacp lag_name <lag>' for the lines  *)
(* of one member port.  The dict interface_info is a function from its     *)
(* keys to their values.                                                   *)
(***************************************************************************)
Chars_ACTR == <<"A", "C", "T", "R">>

Chars_PRTR == <<"P", "R", "T", "R">>

\* interface_info.update({...}) for an ACTR line
actor_update(intf_name, port_info) ==
  [k \in {"int_name", "actor_oper_key", "actor_agg", "actor_syn", "actor_coll",
          "actor_dist", "actor_activity"} |->
     CASE k = "int_name" -> intf_name
       [] k = "actor_oper_key" -> port_info[5]
       [] k = "actor_activity" -> (port_info[6] = <<"Y", "e", "s">>)
       [] k = "actor_agg" -> (port_info[8] = <<"A", "g", "g">>)
       [] k = "actor_syn" -> (port_info[9] = <<"S", "y", "n">>)
       [] k = "actor_coll" -> (port_info[10] = <<"C", "o", "l">>)
       [] k = "actor_dist" -> (port_info[11] = <<"D", "i", "s">>)]

\* interface_info.update({...}) for a PRTR line
partner_update(port_info) ==
  [k \in {"part_oper_key", "part_agg", "part_syn", "part_coll", "part_dist",
          "part_activity"} |->
     CASE k = "part_oper_key" -> port_info[5]
       [] k = "part_activity" -> (port_info[6] = <<"Y", "e", "s">>)
       [] k = "part_agg" -> (port_info[8] = <<"A", "g", "g">>)
       [] k = "part_syn" -> (port_info[9] = <<"S", "y", "n">>)
       [] k = "part_coll" -> (port_info[10] = <<"C", "o", "l">>)
       [] k = "part_dist" -> (port_info[11] = <<"D", "i", "s">>)]

\* the update with tx_count read one column to the left
count_update_column(port_info) ==
  [k \in {"rx_count", "tx_count"} |->
     IF k = "rx_count" THEN port_info[3] ELSE port_info[4]]

\* interface_info.update({...}) for any other line of the port
count_update(port_info) ==
  [k \in {"rx_count", "tx_count"} |->
     IF k = "rx_count" THEN port_info[3] ELSE port_info[5]]

RECURSIVE lacp_lines(_, _, _)
\* for line in output.split('\n'), from the lines not yet read and the dict
\* so far, to how the loop ends
lacp_lines(lines, intf_name, interface_info) ==
  IF Len(lines) = 0 THEN Return(interface_info)
  ELSE LET line == Head(lines)
           port_info == split_ws(line)
       IN IF contains(line, Chars_Error) THEN Raise("ValueError", line)
          ELSE IF ~contains(line, intf_name)
          THEN lacp_lines(Tail(lines), intf_name, interface_info)
          ELSE IF Len(port_info) < 2 THEN ListIndexOutOfRange
          ELSE IF port_info[2] = Chars_ACTR
          THEN IF Len(port_info) < 11 THEN ListIndexOutOfRange
               ELSE lacp_lines(Tail(lines), intf_name,
                               actor_update(intf_name, port_info) @@ interface_info)
          ELSE IF port_info[2] = Chars_PRTR
          THEN IF Len(port_info) < 11 THEN ListIndexOutOfRange
               ELSE lacp_lines(Tail(lines), intf_name,
                               partner_update(port_info) @@ interface_info)
          ELSE IF Len(port_info) < 5 THEN ListIndexOutOfRange
          ELSE lacp_lines(Tail(lines), intf_name,
                          count_update(port_info) @@ interface_info)

get_lacp_member_info(lag_name, intf_name, output) ==
  Outcome(<<Request("cli-get", <<"show lacp lag_name ">> \o lag_name, output)>>, <<>>,
          lacp_lines(split(output, "\n"), intf_name, <<>>))

(***************************************************************************)
(* create_port_channel: one batch of configuration commands, then a scan   *)
(* of the output for an error line.  Every exception raised inside is      *)
(* raised again as ValueError("Failed to create Port-channel!! <message>"). *)
(***************************************************************************)
MinPortChannel == 1

MaxPortChannel == 256

FailedToCreate(m) == Raise("ValueError", <<"Failed to create Port-channel!! ">> \o m)

RECURSIVE port_list_str(_, _)
\* " ".join(int_type + " " + port for port in ports)
port_list_str(int_type, ports) ==
  IF Len(ports) = 0 THEN <<>>
  ELSE IF Len(ports) = 1 THEN <<int_type, " ">> \o ports[1]
  ELSE <<int_type, " ">> \o Head(ports) \o <<" ">> \o port_list_str(int_type, Tail(ports))

\* the batch with 'deploy' sent before the ports are named
create_cli_arr_deploy_first(a) ==
  <<<<"lag", " ">> \o a.desc \o <<" ", a.mode, " ", "id", " ">> \o str(a.portchannel_num),
    <<"deploy">>,
    <<"ports", " ">> \o port_list_str(a.int_type, a.ports),
    <<"primary-port", " ">> \o a.ports[1],
    <<"enable", " ">> \o port_list_str(a.int_type, a.ports)>>

create_cli_arr(a) ==
  <<<<"lag", " ">> \o a.desc \o <<" ", a.mode, " ", "id", " ">> \o str(a.portchannel_num),
    <<"ports", " ">> \o port_list_str(a.int_type, a.ports),
    <<"primary-port", " ">> \o a.ports[1],
    <<"deploy">>,
    <<"enable", " ">> \o port_list_str(a.int_type, a.ports)>>

RECURSIVE first_error_line(_)
\* for line in output.split('\n'): if 'Error' in line: raise ValueError(str(line))
first_error_line(lines) ==
  IF Len(lines) = 0 THEN [found |-> FALSE, line |-> <<>>]
  ELSE IF contains(Head(lines), Chars_Error) THEN [found |-> TRUE, line |-> Head(lines)]
  ELSE first_error_line(Tail(lines))

create_port_channel(a, output) ==
  \* ValueError built from two arguments: its message attribute is empty
  IF a.desc_none THEN Outcome(<<>>, <<>>, FailedToCreate(<<>>))
  ELSE IF Len(a.desc) < 1 \/ Len(a.desc) > MaxKeyLen
  THEN Outcome(<<>>, <<>>, FailedToCreate(<<"Port-channel name should be 1-64 characters">>))
  ELSE IF a.portchannel_num < MinPortChannel \/ a.portchannel_num > MaxPortChannel
  THEN Outcome(<<>>, <<>>, FailedToCreate(<<"Port-channel id should be between 1 and 256">>))
  ELSE IF Len(a.ports) = 0
  THEN Outcome(<<>>, <<>>, FailedToCreate(ListIndexOutOfRange.msg))
  ELSE LET rq == <<Request("cli-set", create_cli_arr(a), output)>>
           err == first_error_line(split(output, "\n"))
       IN IF err.found THEN Outcome(rq, <<>>, FailedToCreate(err.line))
          ELSE Outcome(rq, <<>>, Return(TRUE))

(***************************************************************************)
(* acc_vlan: access VLAN of a port, two commands in one batch.             *)
(***************************************************************************)
valid_int_types == {"ethernet", "port_channel", "loopback", "ve"}

\* pyswitch.utilities.valid_interface: slot/port for a physical interface,
\* a number for a port-channel
valid_interface(int_type, name) ==
  IF int_type = "ethernet"
  THEN Len(split(name, "/")) = 2 /\ \A i \in 1..Len(name) : name[i] \in Range(Digits) \cup {"/"}
  ELSE Len(name) > 0 /\ \A i \in 1..Len(name) : name[i] \in Range(Digits)

\* pyswitch.utilities.valid_vlan_id
valid_vlan_id(vlan) == vlan >= 1 /\ vlan <= 4096

\* re.search(r'Error:(.+)', text).group(0): from the leftmost "Error:" that
\* is followed on its line by at least one character, to the end of that line
error_colon_match(text) ==
  LET starts == {i \in 1..(Len(text) - 6) :
                   /\ SubSeq(text, i, i + 5) = Chars_Error \o <<":">>
                   /\ text[i + 6] # "\n"}
  IN IF starts = {} THEN [found |-> FALSE, group0 |-> <<>>]
     ELSE LET i == Min(starts)
              ends == {j \in i..Len(text) : j = Len(text) \/ text[j + 1] = "\n"}
          IN [found |-> TRUE, group0 |-> SubSeq(text, i, Min(ends))]

\* (the messages are written without the back quotes of the code)
acc_vlan(a, cli_res) ==
  IF a.int_type \notin valid_int_types
  THEN Outcome(<<>>, <<>>, Raise("ValueError", <<"int_type must be one of: %s">>))
  ELSE IF ~valid_interface(a.int_type, a.name)
  THEN Outcome(<<>>, <<>>, Raise("ValueError",
         <<"name must be in the format of y/z for physical interfaces or x for port channel.">>))
  ELSE IF ~valid_vlan_id(a.vlan)
  THEN Outcome(<<>>, <<>>, Raise("InvalidVlanId", <<"name must be between 1 and 4096">>))
  ELSE LET cli_arr == <<<<"vlan", " ">> \o str(a.vlan),
                        (IF a.delete THEN <<"no untagged", " ">> ELSE <<"untagged", " ">>)
                          \o <<a.int_type, " ">> \o a.name>>
           error == error_colon_match(cli_res)
       IN IF error.found
          THEN Outcome(<<Request("cli-set", cli_arr, cli_res)>>, <<>>,
                       Raise("ValueError", error.group0))
          ELSE Outcome(<<Request("cli-set", cli_arr, cli_res)>>, <<>>, Return(TRUE))

(***************************************************************************)
(* port_channels: the summary list of 'show lag brief', then for each LAG  *)
(* its ifindex, its id, the LACP columns of a deployed dynamic LAG, its    *)
(* member ports and, for such a LAG, the LACP status of each member port.  *)
(* dev is the device: what it answers to each request.                     *)
(***************************************************************************)
RECURSIVE lag_brief_loop(_)
\* the loop of get_port_channel_list run to its end
lag_brief_loop(st) == IF LoopOver(st) THEN st ELSE lag_brief_loop(lag_brief_step(st))

get_port_channel_list(output) ==
  LET st == lag_brief_loop(LoopStart(output))
  IN Outcome(<<Request("cli-get", <<"show lag brief">>, output)>>, <<>>,
             IF st.exc # "" THEN ListIndexOutOfRange ELSE Return(st.po_list))

\* the columns of dot3adAggTable, in the order port_channels reads them
dot3ad_columns ==
  <<"dot3adAggActorSystemPriority", "dot3adAggActorSystemID",
    "dot3adAggPartnerSystemPriority", "dot3adAggPartnerSystemID",
    "dot3adAggActorAdminKey", "dot3adAggActorOperKey", "dot3adAggPartnerOperKey">>

\* static data of SnmpMib: the numeric prefix of each column
SnmpMib_mib_oid_map ==
  [col \in Range(dot3ad_columns) |->
     <<"1", ".", "2", ".">>
       \o str(CHOOSE i \in 1..Len(dot3ad_columns) : dot3ad_columns[i] = col)]

RECURSIVE mac_address(_)
\* hnmp.mac_address: the octets in hex, two digits each, joined by ':'
mac_address(octets) ==
  IF Len(octets) = 0 THEN <<>>
  ELSE IF Len(octets) = 1 THEN zfill(hexdigits(octets[1]), 2)
  ELSE zfill(hexdigits(Head(octets)), 2) \o <<":">> \o mac_address(Tail(octets))

RECURSIVE rstrip(_, _)
rstrip(s, chars) ==
  IF Len(s) > 0 /\ s[Len(s)] \in chars THEN rstrip(SubSeq(s, 1, Len(s) - 1), chars) ELSE s

\* s.strip(chars): drops the leading and trailing characters that are in chars
strip(s, chars) == rstrip(lstrip(s, chars), chars)

Chars_dynamic == <<"d", "y", "n", "a", "m", "i", "c">>

\* the seven snmp-gets of a deployed dynamic LAG, indexed by its ifindex
dot3ad_gets(lag_ifindex, dev) ==
  [i \in 1..Len(dot3ad_columns) |->
     Request("snmp-get", SnmpMib_mib_oid_map[dot3ad_columns[i]] \o <<".">> \o lag_ifindex,
             dev.dot3ad[dot3ad_columns[i]])]

KeyError(k) == Raise("KeyError", <<k>>)

IsDecimal(s) == Len(s) > 0 /\ \A i \in 1..Len(s) : s[i] \in Range(Digits)

InvalidLiteral == Raise("ValueError", <<"invalid literal for int() with base 10">>)

\* lines 321-333 for one member port of a deployed dynamic LAG: port is the
\* dict of get_lacp_member_info, c the counters of the LAG so far.  A key the
\* dict lacks raises KeyError.  (int() is modelled for unsigned literals.)
lacp_member(port, c) ==
  LET has(k) == port # <<>> /\ k \in DOMAIN port
      failed(e) == [c EXCEPT !.ret = e]
  IN IF ~has("actor_agg") THEN failed(KeyError("actor_agg"))
     ELSE IF port["actor_agg"] /\ ~has("part_agg") THEN failed(KeyError("part_agg"))
     ELSE IF ~has("tx_count") THEN failed(KeyError("tx_count"))
     ELSE IF ~IsDecimal(port["tx_count"]) THEN failed(InvalidLiteral)
     ELSE IF ~has("rx_count") THEN failed(KeyError("rx_count"))
     ELSE IF ~IsDecimal(port["rx_count"]) THEN failed(InvalidLiteral)
     ELSE LET agg == port["actor_agg"] /\ port["part_agg"]
              coll_dist == /\ port["actor_coll"]
                           /\ port["part_coll"]
                           /\ port["actor_dist"]
                           /\ port["part_dist"]
          IN [c EXCEPT !.ready_agg = IF agg THEN 1 ELSE @,
                       !.sync = IF agg /\ coll_dist THEN "1" ELSE "0",
                       !.tx_link_count = IF int(port["tx_count"], 10) > 0 THEN @ + 1 ELSE @,
                       !.rx_link_count = IF int(port["rx_count"], 10) > 0 THEN @ + 1 ELSE @]

port_channel_interface(int_name, item, sync) ==
  [k \in {"rbridge-id", "interface-type", "interface-name", "actor_port", "sync"} |->
     CASE k = "rbridge-id" -> 0
       [] k = "interface-type" -> "ethernet"
       [] k = "interface-name" -> int_name
       [] k = "actor_port" -> item
       [] k = "sync" -> sync]

RECURSIVE lag_interfaces(_, _, _)
\* for item in ifid_name, from the keys not yet visited.  ctx: the LAG's name,
\* whether it is dynamic and deployed, the dict ifid_name and the device.
\* c: the requests, the interface_list and the counters so far.
lag_interfaces(items, ctx, c) ==
  IF Len(items) = 0 \/ c.ret.kind = "raise" THEN c
  ELSE LET item == Head(items)
           int_name == strip(ctx.ifid_name[item], Range(Chars_ethernet))
           info == get_lacp_member_info(ctx.lag_name, int_name, ctx.dev.lacp)
           asked == [c EXCEPT !.reqs = @ \o info.reqs, !.sync = "0"]
           m == lacp_member(info.ret.val, asked)
           add(d) == [d EXCEPT !.interface_list =
                        Append(@, port_channel_interface(int_name, item, d.sync))]
       IN IF ~ctx.dynamic_deployed
          THEN lag_interfaces(Tail(items), ctx, add([c EXCEPT !.sync = "0"]))
          ELSE IF info.ret.kind = "raise" THEN [asked EXCEPT !.ret = info.ret]
          ELSE IF m.ret.kind = "raise" THEN m
          ELSE lag_interfaces(Tail(items), ctx, add(m))

\* results = {...}, lines 341-357
lag_results(lag_name, aggregator_id, aggregator_mode, lacp, c) ==
  [k \in {"interface-name", "interfaces", "aggregator_id", "aggregator_type", "is_vlag",
          "aggregator_mode", "system_priority", "actor_system_id",
          "partner-oper-priority", "partner-system-id", "admin-key", "oper-key",
          "partner-oper-key", "rx-link-count", "tx-link-count", "individual-agg",
          "ready-agg"} |->
     CASE k = "interface-name" -> lag_name
       [] k = "interfaces" -> c.interface_list
       [] k = "aggregator_id" -> str(aggregator_id)
       [] k = "aggregator_type" -> "standard"
       [] k = "is_vlag" -> FALSE
       [] k = "aggregator_mode" -> aggregator_mode
       [] k = "system_priority" -> lacp[1]
       [] k = "actor_system_id" -> lacp[2]
       [] k = "partner-oper-priority" -> lacp[3]
       [] k = "partner-system-id" -> lacp[4]
       [] k = "admin-key" -> lacp[5]
       [] k = "oper-key" -> lacp[6]
       [] k = "partner-oper-key" -> lacp[7]
       [] k = "rx-link-count" -> c.rx_link_count
       [] k = "tx-link-count" -> c.tx_link_count
       [] k = "individual-agg" -> 0
       [] k = "ready-agg" -> c.ready_agg]

\* the condition without the test of deploy
dynamic_deployed_nodeploy(aggregator_mode, deploy) == aggregator_mode = Chars_dynamic

\* aggregator_mode == 'dynamic' and deploy is True
dynamic_deployed(aggregator_mode, deploy) ==
  aggregator_mode = Chars_dynamic /\ deploy = TRUE

\* the seven values with the partner's system id read into the actor's too
lacp_fields_partner_id(gets) ==
  <<gets[1].answer, mac_address(gets[4].answer), gets[3].answer,
    mac_address(gets[4].answer), gets[5].answer, gets[6].answer, gets[7].answer>>

\* system_priority, actor_system_id, partner_oper_priority, partner_system_id,
\* admin_key, oper_key, partner_oper_key of a deployed dynamic LAG
lacp_fields(gets) ==
  <<gets[1].answer, mac_address(gets[2].answer), gets[3].answer,
    mac_address(gets[4].answer), gets[5].answer, gets[6].answer, gets[7].answer>>

\* the defaults of lines 299-305: seven times '', the string of no character
lacp_defaults == <<<<>>, <<>>, <<>>, <<>>, <<>>, <<>>, <<>>>>

\* the body of: for po in po_list.  order is the order in which the dict
\* ifid_name yields its keys.
lag_record(po, dev, order) ==
  LET a == [lag_name |-> po[1], none |-> FALSE]
      r1 == get_port_channel_ifindex(a, dev.ifindex[po[1]])
      r2 == get_port_channel_id(a, dev.lag_id)
      aggregator_mode == po[2]
      dyn == dynamic_deployed(aggregator_mode, po[4])
      gets == IF dyn THEN dot3ad_gets(str(r1.ret.val), dev) ELSE <<>>
      r3 == get_port_channel_member_ports(a, dev.members)
      before == r1.reqs \o r2.reqs \o gets \o r3.reqs
      c == lag_interfaces(order,
                          [lag_name |-> po[1], dynamic_deployed |-> dyn,
                           ifid_name |-> r3.ret.val, dev |-> dev],
                          [reqs |-> before, interface_list |-> <<>>, ready_agg |-> 0,
                           rx_link_count |-> 0, tx_link_count |-> 0, sync |-> "0",
                           ret |-> Running])
  IN IF r1.ret.kind = "raise" THEN Outcome(r1.reqs, <<>>, r1.ret)
     ELSE IF r2.ret.kind = "raise" THEN Outcome(r1.reqs \o r2.reqs, <<>>, r2.ret)
     ELSE IF r3.ret.kind = "raise" THEN Outcome(before, <<>>, r3.ret)
     ELSE IF c.ret.kind = "raise" THEN Outcome(c.reqs, r3.lookups, c.ret)
     ELSE Outcome(c.reqs, r3.lookups,
                  Return(lag_results(po[1], r2.ret.val, aggregator_mode,
                                     IF dyn THEN lacp_fields(gets) ELSE lacp_defaults, c)))

RECURSIVE lag_records(_, _, _, _)
\* for po in po_list, from the LAGs not yet visited and the outcome so far
lag_records(po_list, dev, order, out) ==
  IF Len(po_list) = 0 THEN out
  ELSE LET r == lag_record(Head(po_list), dev, order)
           rq == out.reqs \o r.reqs
           lk == out.lookups \o r.lookups
       IN IF r.ret.kind = "raise" THEN Outcome(rq, lk, r.ret)
          ELSE lag_records(Tail(po_list), dev, order,
                           Outcome(rq, lk, Return(Append(out.ret.val, r.ret.val))))

port_channels(output, dev, order) ==
  LET l == get_port_channel_list(output)
  IN IF l.ret.kind = "raise" THEN l
     ELSE lag_records(l.ret.val, dev, order, Outcome(l.reqs, <<>>, Return(<<>>)))

(***************************************************************************)
(* Pattern-match operations.  A value returned is tagged with its Python   *)
(* type: a str (its characters), a bool, a dict, or None.                   *)
(***************************************************************************)
PyStr(chars) == [type |-> "str", v |-> chars]

PyBool(b) == [type |-> "bool", v |-> b]

PyDict(d) == [type |-> "dict", v |-> d]

None == [type |-> "NoneType", v |-> <<>>]

\* what calling .group on the None of a failed re.search raises
NoneHasNoGroup == Raise("AttributeError", <<"'NoneType' object has no attribute 'group'">>)

Max(S) == CHOOSE m \in S : \A n \in S : m >= n

\* the positions at which lit occurs in text
occurrences(text, lit) ==
  {i \in 1..(Len(text) - Len(lit) + 1) : SubSeq(text, i, i + Len(lit) - 1) = lit}

\* the first and the last position of the line that holds position i
line_start(text, i) == Max({j \in 1..i : j = 1 \/ text[j - 1] = "\n"})

line_end(text, i) == Min({j \in i..Len(text) : j = Len(text) \/ text[j + 1] = "\n"})

NoMatch == [found |-> FALSE, group0 |-> <<>>, group1 |-> <<>>, group2 |-> <<>>]

\* re.search(lit + '(.+)', text): the leftmost lit that has a character after
\* it on its line; group(1) runs to the end of the line
search_rest(text, lit) ==
  LET starts == {i \in occurrences(text, lit) :
                   i + Len(lit) <= Len(text) /\ text[i + Len(lit)] # "\n"}
  IN IF starts = {} THEN NoMatch
     ELSE LET i == Min(starts)
              e == line_end(text, i + Len(lit))
          IN [found |-> TRUE, group0 |-> SubSeq(text, i, e),
              group1 |-> SubSeq(text, i + Len(lit), e), group2 |-> <<>>]

Chars_Preferred ==
  <<" ", "[", "P", "r", "e", "f", "e", "r", "r", "e", "d", "]", ",", " ",
    " ", "s", "u", "b", "n", "e", "t", " ", "i", "s", " ">>

\* re.search(r'(.+) \[Preferred\],  subnet is (.+)', text): on the first line
\* that has the marker with a character before and after it, group(1) runs
\* from the start of the line to the last such marker, group(2) from there to
\* the end of the line
search_preferred(text) ==
  LET ok == {m \in occurrences(text, Chars_Preferred) :
               /\ m > 1
               /\ text[m - 1] # "\n"
               /\ m + Len(Chars_Preferred) <= Len(text)
               /\ text[m + Len(Chars_Preferred)] # "\n"}
  IN IF ok = {} THEN NoMatch
     ELSE LET ls == line_start(text, Min(ok))
              le == line_end(text, Min(ok))
              m == Max({n \in ok : n <= le})
          IN [found |-> TRUE, group0 |-> SubSeq(text, ls, le),
              group1 |-> SubSeq(text, ls, m - 1),
              group2 |-> SubSeq(text, m + Len(Chars_Preferred), le)]

\* re.search(r'Ve(.+?) is', text): the leftmost 'Ve' that has ' is' later on
\* its line with a character in between; group(1) runs to the nearest ' is'
search_ve_is(text) ==
  LET is_after(s) == {q \in occurrences(text, <<" ", "i", "s">>) :
                        q >= s + 3 /\ \A j \in (s + 2)..(q - 1) : text[j] # "\n"}
      starts == {s \in occurrences(text, <<"V", "e">>) : is_after(s) # {}}
  IN IF starts = {} THEN NoMatch
     ELSE LET s == Min(starts)
              q == Min(is_after(s))
          IN [found |-> TRUE, group0 |-> SubSeq(text, s, q + 2),
              group1 |-> SubSeq(text, s + 2, q - 1), group2 |-> <<>>]

Whitespace == {" ", "\t", "\n", "\r"}

Chars_ip_address ==
  <<"i", "p", " ", "a", "d", "d", "r", "e", "s", "s", ":">>

Chars_IPv6_enabled ==
  <<"I", "P", "v", "6", " ", "i", "s", " ", "e", "n", "a", "b", "l", "e",
    "d">>

\* int_type.lower(), for the spellings of the model
lower(t) == CASE t = "VE" -> "ve"
              [] t = "Ethernet" -> "ethernet"
              [] OTHER -> t

get_ip_addresses(a, cli_output) ==
  LET int_type == lower(a.int_type)
      rq4 == <<Request("cli-get",
                       <<"show ip inter", " ", int_type, " ">> \o a.name
                         \o <<" | include address">>, cli_output)>>
      rq6 == <<Request("cli-get", <<"show ipv6 inter", " ", int_type, " ">> \o a.name,
                       cli_output)>>
      ip == split(cli_output, " ")
      ipv6_s == search_preferred(cli_output)
      subnet_s == search_rest(ipv6_s.group2, <<":", ":", "/">>)
  IN IF a.version = 4
     THEN IF contains(cli_output, Chars_ip_address)
          THEN IF Len(ip) < 5 THEN Outcome(rq4, <<>>, ListIndexOutOfRange)
               ELSE Outcome(rq4, <<>>, Return(PyStr(ip[5])))
          ELSE Outcome(rq4, <<>>, Return(PyBool(FALSE)))
     ELSE IF a.version = 6
     THEN IF contains(cli_output, Chars_IPv6_enabled)
          THEN IF ~ipv6_s.found \/ ~subnet_s.found THEN Outcome(rq6, <<>>, NoneHasNoGroup)
               ELSE Outcome(rq6, <<>>,
                            Return(PyStr(strip(ipv6_s.group1, Whitespace) \o <<"/">>
                                           \o subnet_s.group1)))
          ELSE Outcome(rq6, <<>>, Return(PyBool(FALSE)))
     ELSE Outcome(<<>>, <<>>, Return(None))

Chars_VRF ==
  <<"P", "o", "r", "t", " ", "b", "e", "l", "o", "n", "g", "s", " ", "t",
    "o", " ", "V", "R", "F", ":", " ">>

\* if error: return None  (lines 1179-1180)
vrf_get_error(error) == Return(None)

\* a.enable, a.get and a.vrf_name hold the defaults when the caller gave none
add_int_vrf(a, cli_res) ==
  LET int_type == lower(a.int_type)
      error == search_rest(cli_res, Chars_Error)
      result == search_rest(cli_res, Chars_VRF)
      get_rq == <<Request("cli-get", <<"show ip interface ve ">> \o a.name, cli_res)>>
      set_rq(cmd) == <<Request("cli-set",
                               <<<<"interface ve ">> \o a.name, <<cmd>> \o a.vrf_name>>,
                               cli_res)>>
      set(cmd) == IF error.found
                  THEN Outcome(set_rq(cmd), <<>>, Raise("ValueError", error.group0))
                  ELSE Outcome(set_rq(cmd), <<>>, Return(PyBool(TRUE)))
  IN IF int_type \notin valid_int_types
     THEN Outcome(<<>>, <<>>, Raise("ValueError", <<"int_type must be one of: %s">>))
     ELSE IF a.get /\ int_type = "ve"
     THEN IF error.found THEN Outcome(get_rq, <<>>, vrf_get_error(error))
          ELSE IF ~result.found THEN Outcome(get_rq, <<>>, NoneHasNoGroup)
          ELSE Outcome(get_rq, <<>>, Return(PyStr(strip(result.group1, Whitespace))))
     ELSE IF ~a.enable /\ int_type = "ve" THEN set("no vrf forwarding ")
     ELSE IF int_type = "ve" THEN set("vrf forwarding ")
     ELSE Outcome(<<>>, <<>>, Return(None))

MinVlanId == 1

MaxVlanId == 4090

\* Interface.valid_vlan_id of a decimal string
self_valid_vlan_id(vlan_id) ==
  MinVlanId <= int(vlan_id, 10) /\ int(vlan_id, 10) <= MaxVlanId

\* a.has_ve_config: whether the caller passed ve_config
vlan_router_ve(a, cli_res) ==
  LET error == search_rest(cli_res, Chars_Error)
      set_rq(cmd) == <<Request("cli-set",
                               <<<<"vlan ">> \o a.vlan_id, <<cmd>> \o a.ve_config>>,
                               cli_res)>>
      set(cmd) == IF ~a.has_ve_config THEN Outcome(<<>>, <<>>, KeyError("ve_config"))
                  ELSE IF error.found
                  THEN Outcome(set_rq(cmd), <<>>, Raise("ValueError", error.group0))
                  ELSE Outcome(set_rq(cmd), <<>>, Return(PyBool(TRUE)))
      get_rq == <<Request("cli-get", <<"show vlan ">> \o a.vlan_id \o <<" | inc Ve">>,
                          cli_res)>>
      ve_info == search_ve_is(cli_res)
  IN IF ~IsDecimal(a.vlan_id) \/ ~self_valid_vlan_id(a.vlan_id)
     THEN IF ~IsDecimal(a.vlan_id) THEN Outcome(<<>>, <<>>, InvalidLiteral)
          ELSE Outcome(<<>>, <<>>,
                       Raise("InvalidVlanId",
                             <<"VLAN Id ">> \o a.vlan_id \o <<" not in range 1 to 4090.">>))
     ELSE IF a.delete THEN set("no router-interface ve ")
     ELSE IF ~a.get THEN set("router-interface ve ")
     ELSE IF cli_res # <<>>
     THEN IF ~ve_info.found THEN Outcome(get_rq, <<>>, NoneHasNoGroup)
          ELSE Outcome(get_rq, <<>>, Return(PyStr(ve_info.group1)))
     ELSE Outcome(get_rq, <<>>, Return(None))

(***************************************************************************)
(* admin_state, description: one SNMP request on the port's row of the     *)
(* interface table.  ifname_Ids is the name -> index mapping of the base   *)
(* class (a value is an index, or None); cb is what the transport callback *)
(* does when called: it answers cb.val or raises cb.exc with cb.msg.        *)
(***************************************************************************)
PyInt(i) == [type |-> "int", v |-> i]

\* the use of the name -> index lookup, as recorded in lookups
NameIdLookup == <<"get_interface_name_id_mapping">>

\* str(port_id)
str_port_id(port_id) == IF port_id.type = "NoneType" THEN <<"None">> ELSE str(port_id.v)

\* except AttributeError: return None
\* except Exception as error: raise ValueError('Failed ... %s' % error.message)
callback_failed(cb) ==
  IF cb.exc = "AttributeError" THEN Return(None)
  ELSE Raise("ValueError", <<"Failed to set interface admin status to ">> \o cb.msg)

\* a.enabled is None when the caller asks for the state (get)
admin_state(a, ifname_Ids, cb) ==
  LET int_type == lower(a.int_type)
      key == <<int_type>> \o a.name
      port_id == ifname_Ids[key]
      ifadminStatus_index == <<"ifAdminStatus", ".">> \o str_port_id(port_id)
      value == IF a.enabled.v = TRUE THEN 1 ELSE 2
      get_rq == <<Request("default", ifadminStatus_index, cb)>>
      set_rq == <<Request("snmp-set", <<ifadminStatus_index, value>>, cb)>>
  IN IF key \notin DOMAIN ifname_Ids
     THEN Outcome(<<>>, <<NameIdLookup>>, KeyError(key))
     ELSE IF port_id.type = "NoneType"
     THEN Outcome(<<>>, <<NameIdLookup>>, Raise("ValueError", <<" Invalid port-id">>))
     ELSE IF int_type \notin valid_int_types
     THEN Outcome(<<>>, <<NameIdLookup>>,
                  Raise("ValueError", <<"int_type must be one of: %s">>))
     ELSE IF a.enabled.type # "bool" /\ ~a.get
     THEN Outcome(<<>>, <<NameIdLookup>>,
                  Raise("ValueError", <<"enabled must be True or False.">>))
     ELSE IF a.get
     THEN IF cb.exc # "" THEN Outcome(get_rq, <<NameIdLookup>>, callback_failed(cb))
          ELSE Outcome(get_rq, <<NameIdLookup>>,
                       Return(PyBool(cb.val.type = "int" /\ cb.val.v = 1)))
     ELSE IF cb.exc # "" THEN Outcome(set_rq, <<NameIdLookup>>, callback_failed(cb))
     ELSE Outcome(set_rq, <<NameIdLookup>>, Return(cb.val))

\* a.has_desc: whether the caller passed desc
description(a, ifname_Ids, cb) ==
  LET int_type == lower(a.int_type)
      key == <<int_type>> \o a.name
      port_id == ifname_Ids[key]
      ifAlias_oid == <<"ifAlias", ".">> \o str_port_id(port_id)
      get_rq == <<Request("default", ifAlias_oid, cb)>>
      set_rq == <<Request("snmp-set", <<ifAlias_oid, a.desc>>, cb)>>
  IN IF key \notin DOMAIN ifname_Ids
     THEN Outcome(<<>>, <<NameIdLookup>>, KeyError(key))
     ELSE IF int_type = "ethernet" /\ port_id.type = "NoneType"
     THEN Outcome(<<>>, <<NameIdLookup>>, Raise("ValueError", <<"pass valid port-id">>))
     ELSE IF int_type \notin valid_int_types
     THEN Outcome(<<>>, <<NameIdLookup>>,
                  Raise("ValueError", <<"int_type must be one of: %s">>))
     ELSE IF a.get
     THEN IF cb.exc # "" THEN Outcome(get_rq, <<NameIdLookup>>, callback_failed(cb))
          ELSE Outcome(get_rq, <<NameIdLookup>>, Return(cb.val))
     ELSE IF ~a.has_desc
     THEN Outcome(<<>>, <<NameIdLookup>>,
                  Raise("ValueError", <<"Failed to set interface admin status to ", "desc">>))
     ELSE IF cb.exc # "" THEN Outcome(set_rq, <<NameIdLookup>>, callback_failed(cb))
     ELSE Outcome(set_rq, <<NameIdLookup>>, Return(cb.val))

(***************************************************************************)
(* ip_address: set, delete or read the IP address of an L3 interface.      *)
(* a.version is what ipaddress.ip_interface makes of a.ip_addr: 4, 6, or 0 *)
(* when it rejects it.  cli_res and cli_res2 are the outputs of the first  *)
(* and of the second command batch.                                        *)
(***************************************************************************)
MinVeId == 1

MaxVeId == 255

valid_ve_id(ve_id) == MinVeId <= int(ve_id, 10) /\ int(ve_id, 10) <= MaxVeId

MinLoopbackId == 1

MaxLoopbackId == 64

valid_loopback_number(loopback_number) ==
  MinLoopbackId <= int(loopback_number, 10) /\ int(loopback_number, 10) <= MaxLoopbackId

Chars_ipv6_address ==
  <<"i", "p", "v", "6", " ", "a", "d", "d", "r", "e", "s", "s">>

Chars_link_local ==
  <<"l", "i", "n", "k", "-", "l", "o", "c", "a", "l">>

RECURSIVE first_ipv6_line(_)
\* the loop of lines 1426-1431: the first line with 'ipv6 address' and
\* without 'link-local' ends it
first_ipv6_line(lines) ==
  IF Len(lines) = 0 THEN [found |-> FALSE, line |-> <<>>]
  ELSE IF contains(Head(lines), Chars_ipv6_address) /\ ~contains(Head(lines), Chars_link_local)
       THEN [found |-> TRUE, line |-> Head(lines)]
       ELSE first_ipv6_line(Tail(lines))

ip_address(a, cli_res, cli_res2) ==
  LET int_type == lower(a.int_type)
      intf == <<"interface ", int_type, " ">> \o a.name
      set_rq(cmd) == <<Request("cli-set", <<intf, <<cmd>> \o a.ip_addr>>, cli_res)>>
      error == search_rest(cli_res, Chars_Error)
      set(cmd) == IF error.found
                  THEN Outcome(set_rq(cmd), <<>>, Raise("ValueError", error.group0))
                  ELSE Outcome(set_rq(cmd), <<>>, Return(PyBool(TRUE)))
      show == <<"show ip interface ", int_type, " ">> \o a.name
      running == <<"show running-config interface ", int_type, " ">> \o a.name
      rq1 == <<Request("cli-get", <<show>>, cli_res)>>
      rq2 == rq1 \o <<Request("cli-get", <<show, running>>, cli_res2)>>
      ipv4 == search_rest(cli_res, Chars_ip_address \o <<" ">>)
      error2 == search_rest(cli_res2, Chars_Error)
      v6line == first_ipv6_line(split(cli_res2, "\n"))
      ipv6 == search_rest(v6line.line, Chars_ipv6_address \o <<":", " ">>)
  IN IF int_type \notin valid_int_types
     THEN Outcome(<<>>, <<>>, Raise("ValueError", <<"int_type must be one of: %s">>))
     ELSE IF int_type \in {"ve", "loopback"} /\ ~IsDecimal(a.name)
     THEN Outcome(<<>>, <<>>, InvalidLiteral)
     ELSE IF int_type = "ve" /\ ~valid_ve_id(a.name)
     THEN Outcome(<<>>, <<>>, Raise("ValueError", <<"Ve Id must be between 1 and 255">>))
     ELSE IF int_type = "loopback" /\ ~valid_loopback_number(a.name)
     THEN Outcome(<<>>, <<>>,
                  Raise("InvalidLoopbackName", <<"Loopback number must be between 1 and 64">>))
     ELSE IF ~a.get
     THEN IF a.version = 0
          THEN Outcome(<<>>, <<>>,
                       Raise("ValueError",
                             a.ip_addr \o <<" does not appear to be an IPv4 or IPv6 interface">>))
          ELSE IF a.delete
          THEN set(IF a.version = 4 THEN "no ip address " ELSE "no ipv6 address ")
          ELSE set(IF a.version = 4 THEN "ip address " ELSE "ipv6 address ")
     ELSE IF error.found THEN Outcome(rq1, <<>>, Raise("ValueError", error.group0))
     ELSE IF ~ipv4.found THEN Outcome(rq1, <<>>, NoneHasNoGroup)
     ELSE IF error2.found THEN Outcome(rq2, <<>>, Raise("ValueError", error2.group0))
     ELSE IF ~v6line.found
     THEN Outcome(rq2, <<>>,
                  Raise("UnboundLocalError",
                        <<"local variable 'ipv6_add' referenced before assignment">>))
     ELSE IF ~ipv6.found THEN Outcome(rq2, <<>>, NoneHasNoGroup)
     ELSE Outcome(rq2, <<>>,
                  Return(PyDict([ipv4_address |-> ipv4.group1, ipv6_address |-> ipv6.group1])))

(***************************************************************************)
(* ve_interfaces: the VE interfaces of the running configuration, then the *)
(* state and the address of those that 'show ip interface' lists.          *)
(***************************************************************************)
Chars_unassigned ==
  <<"u", "n", "a", "s", "s", "i", "g", "n", "e", "d">>

Chars_down == <<"d", "o", "w", "n">>

Chars_interface_ve ==
  <<"i", "n", "t", "e", "r", "f", "a", "c", "e", " ", "v", "e", " ">>

\* ve_info = {...}, lines 1058-1063
ve_info(ve_id) ==
  [k \in {"interface-type", "interface-name", "if-name", "interface-state",
          "interface-proto-state", "ip-address"} |->
     CASE k = "interface-type" -> <<"v", "e">>
       [] k = "interface-name" -> ve_id
       [] k = "if-name" -> <<"V", "e", " ">> \o ve_id
       [] k = "interface-state" -> Chars_down
       [] k = "interface-proto-state" -> Chars_down
       [] k = "ip-address" -> Chars_unassigned]

RECURSIVE ve_config_lines(_, _)
\* the first loop: one entry per line; found is FALSE when a line does not
\* match 'interface ve (.+)'
ve_config_lines(lines, ve_list) ==
  IF Len(lines) = 0 THEN [found |-> TRUE, ve_list |-> ve_list]
  ELSE LET info == search_rest(Head(lines), Chars_interface_ve)
       IN IF ~info.found THEN [found |-> FALSE, ve_list |-> ve_list]
          ELSE ve_config_lines(Tail(lines), Append(ve_list, ve_info(info.group1)))

\* the default kept when 'ip address:' is not in the output
ve_ip_address(cli_out) ==
  LET ve_ip == search_rest(cli_out, Chars_ip_address)
  IN IF ve_ip.found THEN strip(ve_ip.group1, Whitespace) ELSE Chars_unassigned

\* for item in ve_list: the entries of the VE that still are unassigned
ve_update(ve_list, int_name, ip_address_, int_state, int_proto_state) ==
  [i \in 1..Len(ve_list) |->
     IF ve_list[i]["interface-name"] = int_name /\ ve_list[i]["ip-address"] = Chars_unassigned
     THEN [k \in DOMAIN ve_list[i] |->
             CASE k = "ip-address" -> ip_address_
               [] k = "interface-state" -> int_state
               [] k = "interface-proto-state" -> int_proto_state
               [] OTHER -> ve_list[i][k]]
     ELSE ve_list[i]]

RECURSIVE ve_status_lines(_, _, _)
\* the second loop, from the lines not yet read; c: the requests and the
\* ve_list so far
ve_status_lines(lines, cli_out, c) ==
  IF Len(lines) = 0 THEN c
  ELSE LET info == search_rest(Head(lines), <<"v", "e", " ">>)
           list == split_ws(info.group0)
           rq == Request("cli-get", <<"show ip interface ve", " ">> \o list[2], cli_out)
       IN IF ~info.found THEN ve_status_lines(Tail(lines), cli_out, c)
          ELSE IF Len(list) < 7 THEN [c EXCEPT !.ret = ListIndexOutOfRange]
          ELSE ve_status_lines(Tail(lines), cli_out,
                 [c EXCEPT !.reqs = Append(@, rq),
                           !.ve_list = ve_update(@, list[2], ve_ip_address(cli_out),
                                                 list[6], list[7])])

ve_interfaces(output, output2, cli_out) ==
  LET rq1 == <<Request("cli-get", <<"show running-config interface | inc ve">>, output)>>
      rq2 == rq1 \o <<Request("cli-get", <<"show ip interface | inc ve">>, output2)>>
      first == ve_config_lines(split(output, "\n"), <<>>)
      c == ve_status_lines(split(output2, "\n"), cli_out,
                           [reqs |-> rq2, ve_list |-> first.ve_list, ret |-> Running])
  IN IF ~first.found THEN Outcome(rq1, <<>>, NoneHasNoGroup)
     ELSE IF c.ret.kind = "raise" THEN Outcome(c.reqs, <<>>, c.ret)
     ELSE Outcome(c.reqs, <<>>, Return(c.ve_list))

(***************************************************************************)
(* AclParamParser.parse_mirror, parse_log.  parameters is the dict of the  *)
(* keyword arguments: a function from the keys given to their values, a    *)
(* value being a str or a bool with its text.                              *)
(***************************************************************************)
Str(t) == [type |-> "str", text |-> t]

Bool(b) == [type |-> "bool", text |-> IF b THEN "True" ELSE "False"]

\* the truth value of a str or a bool: not '' and not False
truthy(v) == IF v.type = "bool" THEN v.text = "True" ELSE v.text # ""

\* 'k' in parameters or not parameters['k']: the subscript is evaluated only
\* when the key is absent, and then raises KeyError
in_or_not(parameters, k) ==
  IF k \in DOMAIN parameters THEN [raised |-> FALSE, v |-> TRUE]
  ELSE [raised |-> TRUE, v |-> FALSE]

parse_mirror(parameters) ==
  LET first == in_or_not(parameters, "mirror")
      second == in_or_not(parameters, "log")
  IN IF first.raised THEN KeyError("mirror")
     ELSE IF first.v THEN Return(None)
     ELSE IF /\ "action" \in DOMAIN parameters
             /\ truthy(parameters["action"])
             /\ parameters["action"] # Str("permit")
     THEN Raise("ValueError", <<" Mirror keyword is applicable only for ACL permit clauses">>)
     ELSE IF second.raised THEN KeyError("log")
     ELSE IF second.v THEN Return(PyStr(<<"mirror">>))
     ELSE Raise("ValueError", <<"log and mirror keywords can not be used together">>)

parse_log(parameters) ==
  LET first == in_or_not(parameters, "log")
  IN IF first.raised THEN KeyError("log")
     ELSE IF first.v THEN Return(None)
     ELSE IF "mirror" \in DOMAIN parameters /\ parameters["mirror"] # Str("False")
     THEN Raise("ValueError",
                <<"Error: mirror and log keywords can not be used together">>)
     ELSE IF parameters["log"] = Str("True") THEN Return(PyStr(<<"log">>))
     ELSE Return(None)

\* the first sequence id that is refused: seq_id < 214748365
SeqIdLimit == 214748365

\* not parameters['seq_id'] is true of the int 0
parse_seq_id(parameters) ==
  IF "seq_id" \notin DOMAIN parameters \/ parameters["seq_id"] = 0 THEN Return(None)
  ELSE IF parameters["seq_id"] > 0 /\ parameters["seq_id"] < SeqIdLimit
  THEN Return(PyStr(str(parameters["seq_id"])))
  ELSE Raise("ValueError",
             <<"The 'seq_id' value {} is invalid.",
               "Valid range for sequence is 1 to 214748364.">>)

MaxAclNameLen == 255

\* c.lower() of one character, for the letters of the model
char_lower(c) ==
  CASE c = "A" -> "a"
    [] c = "L" -> "l"
    [] c = "T" -> "t"
    [] c = "E" -> "e"
    [] c = "S" -> "s"
    [] OTHER -> c

str_lower(name) == [i \in 1..Len(name) |-> char_lower(name[i])]

Chars_all == <<"a", "l", "l">>

Chars_test == <<"t", "e", "s", "t">>

acl_name_reserved_exact(acl_name) == acl_name \in {Chars_all, Chars_test}

\* parameters['acl_name'].lower() in ['all', 'test']
acl_name_reserved(acl_name) == str_lower(acl_name) \in {Chars_all, Chars_test}

parse_acl_name(parameters) ==
  IF "acl_name" \notin DOMAIN parameters \/ parameters["acl_name"] = <<>>
  THEN Raise("ValueError", <<"'acl_name' can not be empty string">>)
  ELSE IF Len(parameters["acl_name"]) > MaxAclNameLen
  THEN Raise("ValueError", <<"'acl_name' can't be more than 255 characters">>)
  ELSE IF acl_name_reserved(parameters["acl_name"])
  THEN Raise("ValueError", parameters["acl_name"] \o <<" cannot be used as an ACL name">>)
  ELSE Return(PyStr(parameters["acl_name"]))

(***************************************************************************)
(* add_vlan_int: the VLANs of vlan_id_list are created with 'vlan <id>'    *)
(* commands.  The list cli_arr grows while the loop runs and is handed to  *)
(* the callback at the start of every iteration and once after the loop.   *)
(* a.desc_none: desc is None; a.fail_at: the invocation of the callback     *)
(* that raises (0: none does); output: what the device answers.             *)
(***************************************************************************)
\* 'vlan' + " " + str(vlan), with ' name <desc>' when a description is given
vlan_command(vlan, a) ==
  IF a.desc_none THEN <<"vlan", " ">> \o str(vlan)
  ELSE <<"vlan", " ">> \o str(vlan) \o <<" ", "name", " ">> \o a.desc

\* cli_arr after k iterations of the loop
vlan_cli_arr(a, k) == [i \in 1..k |-> vlan_command(a.vlan_id_list[i], a)]

CallbackTimeout == [exc |-> "Exception", msg |-> <<"timeout">>]

\* the n-th invocation of the callback: cli_arr as it is after k iterations
vlan_request(a, n, k, output) ==
  Request("cli-set", vlan_cli_arr(a, k),
          IF a.fail_at = n THEN CallbackTimeout.msg ELSE output)

FailedToCreateVlan(m) == Raise("ValueError", <<"Failed to create VLAN ">> \o m)

add_vlan_int(a, output) ==
  LET N == Len(a.vlan_id_list)
      \* the invocations: one at the start of each iteration, one after the loop
      all == [n \in 1..(N + 1) |-> vlan_request(a, n, n - 1, output)]
  IN IF a.fail_at \in 1..(N + 1)
     THEN Outcome(SubSeq(all, 1, a.fail_at), <<>>, FailedToCreateVlan(CallbackTimeout.msg))
     ELSE Outcome(all, <<>>, Return(PyBool(TRUE)))

(***************************************************************************)
(* Inputs of the model.                                                    *)
(***************************************************************************)
SeqsUpTo(S, n) == UNION {[1..k -> S] : k \in 0..n}

NameChars == {"p", "o", "."}

po50 == <<"p", "o", "5", "0">>

\* a name of exactly n characters
LongName(n) == [i \in 1..n |-> IF i % 2 = 1 THEN "p" ELSE "o"]

\* LAG names: every short one, the example of the documentation, and the
\* names around the length limit
Names == SeqsUpTo(NameChars, MaxNameLen)
           \cup {po50, LongName(MaxKeyLen - 1), LongName(MaxKeyLen), LongName(MaxKeyLen + 1)}

LagNameArgs == {[lag_name |-> <<>>, none |-> TRUE]}
                 \cup {[lag_name |-> n, none |-> FALSE] : n \in Names}

\* what the device answers to an snmp-get of an ifindex or a LAG id
SnmpInts == {1, 50}

ByteVals == {0, 1, 16, 255}

\* 4-octet groups used to build the longer octet strings
Groups == {<<0, 0, 0, 1>>, <<0, 0, 1, 0>>, <<255, 16, 1, 0>>}

Tails == {<<>>, <<1>>, <<0, 16>>, <<0, 0, 0>>}

\* raw values of fdryLinkAggregationGroupIfList
OctetStrings == SeqsUpTo(ByteVals, MaxOctets)
                  \cup {g \o h \o t : g \in Groups, h \in Groups, t \in Tails}

\* names of the LAGs configured on the device
DeviceNames == {n \in Names : Len(n) >= 1 /\ Len(n) <= MaxKeyLen}

\* rows of the LAG table walk: the LAG id column and the row index
LagRows == {[lag_id |-> i, name |-> n, row_id |-> lag_index(n)] :
              i \in {1, 50}, n \in DeviceNames}

LagTables == SeqsUpTo(LagRows, 2)

PortInts == {1, 50, 7}

\* lines of 'show lag brief' output
Brief_total ==
  <<"T", "o", "t", "a", "l", " ", "L", "A", "G", "s", ":", " ", "2">>

Brief_header ==
  <<"L", "A", "G", " ", "T", "y", "p", "e", " ", "D", "e", "p", "l", "o",
    "y", " ", "T", "r", "u", "n", "k", " ", "P", "r", "i", "m", "a", "r",
    "y">>

Brief_po50 ==
  <<"p", "o", "5", "0", " ", "d", "y", "n", "a", "m", "i", "c", " ", "Y",
    " ", "1", " ", "2", "/", "1">>

Brief_p ==
  <<"p", " ", " ", "s", "t", "a", "t", "i", "c", " ", "N", " ", "2", " ",
    "1", "/", "1">>

\* a LAG whose name contains the header token
Brief_Deploy1 ==
  <<"D", "e", "p", "l", "o", "y", "1", " ", "s", "t", "a", "t", "i", "c",
    " ", "Y", " ", "3", " ", "1", "/", "2">>

\* a row cut short
Brief_short ==
  <<"p", " ", "s", "t", "a", "t", "i", "c">>

Brief_error ==
  <<"E", "r", "r", "o", "r", ":", " ", "x">>

BriefLines ==
  {Brief_total, Brief_header, Brief_po50, Brief_p, Brief_Deploy1, Brief_short,
   Brief_error, <<>>}

RECURSIVE joinlines(_)
\* the text whose lines are ls
joinlines(ls) ==
  IF Len(ls) = 0 THEN <<>>
  ELSE IF Len(ls) = 1 THEN ls[1]
  ELSE Head(ls) \o <<"\n">> \o joinlines(Tail(ls))

BriefOutputs == {joinlines(ls) : ls \in SeqsUpTo(BriefLines, MaxLines)}

\* lines of 'show lacp lag_name <lag>' output
Lacp_actor ==
  <<"2", "/", "1", " ", "A", "C", "T", "R", " ", "1", " ", "1", " ", "1",
    "0", "0", " ", "Y", "e", "s", " ", "S", " ", "A", "g", "g", " ", "S",
    "y", "n", " ", "C", "o", "l", " ", "D", "i", "s", " ", "N", "o", " ",
    "N", "o">>

Lacp_partner ==
  <<"2", "/", "1", " ", "P", "R", "T", "R", " ", "1", " ", "1", " ", "1",
    "0", "0", " ", "Y", "e", "s", " ", "S", " ", "A", "g", "g", " ", "S",
    "y", "n", " ", "N", "o", " ", "D", "i", "s", " ", "N", "o", " ", "N",
    "o">>

Lacp_counts ==
  <<"2", "/", "1", " ", "R", "x", " ", "5", " ", "T", "x", " ", "0">>

\* a line of another port
Lacp_other ==
  <<"2", "/", "1", "0", " ", "A", "C", "T", "R", " ", "1", " ", "1", " ",
    "2", "0", "0", " ", "N", "o", " ", "S", " ", "N", "o", " ", "N", "o",
    " ", "N", "o", " ", "N", "o", " ", "N", "o", " ", "N", "o">>

\* a line that names the port and has no further column
Lacp_short ==
  <<"=", "=", "=", " ", "2", "/", "1">>

Lacp_header ==
  <<"P", "o", "r", "t", " ", "R", "o", "l", "e">>

\* lines of the output of a configuration batch
Cli_error ==
  <<"E", "r", "r", "o", "r", ":", " ", "x">>

Cli_error_nocolon ==
  <<"L", "A", "G", " ", "E", "r", "r", "o", "r", " ", "5">>

Cli_error_prefixed ==
  <<"%", " ", "E", "r", "r", "o", "r", ":", " ", "y">>

Cli_ok ==
  <<"o", "k">>

LacpLines ==
  {Lacp_actor, Lacp_partner, Lacp_counts, Lacp_other, Lacp_short, Lacp_header, Cli_error}

LacpOutputs == {joinlines(ls) : ls \in SeqsUpTo(LacpLines, MaxLines)}

Port_2_1 == <<"2", "/", "1">>

Port_2_2 == <<"2", "/", "2">>

IntfNames == {Port_2_1, Port_2_2}

CliLines == {Cli_error, Cli_error_nocolon, Cli_error_prefixed, Cli_ok, <<>>}

CliOutputs == {joinlines(ls) : ls \in SeqsUpTo(CliLines, MaxLines)}

CreateArgs ==
  {[desc_none |-> dn, desc |-> d, int_type |-> "ethernet", mode |-> m,
    portchannel_num |-> n, ports |-> ps] :
     dn \in {FALSE}, d \in {po50, <<>>, LongName(MaxKeyLen + 1)}, m \in {"static", "dynamic"},
     n \in {MinPortChannel - 1, 50, MaxPortChannel, MaxPortChannel + 1},
     ps \in {<<Port_2_1, Port_2_2>>, <<>>}}
  \cup {[desc_none |-> TRUE, desc |-> <<>>, int_type |-> "ethernet", mode |-> "static",
         portchannel_num |-> 50, ports |-> <<Port_2_1, Port_2_2>>],
        [desc_none |-> FALSE, desc |-> po50, int_type |-> "ethernet", mode |-> "static",
         portchannel_num |-> 50, ports |-> <<Port_2_2, Port_2_1>>]}

AccVlanArgs ==
  {[delete |-> d, int_type |-> t, name |-> n, vlan |-> v] :
     d \in BOOLEAN, t \in {"ethernet", "gigabitethernet"}, n \in {Port_2_1, <<"x">>},
     v \in {0, 736, 4097}}

\* rows of the table of 'show lag brief' for port_channels
Brief_po50_static ==
  <<"p", "o", "5", "0", " ", "s", "t", "a", "t", "i", "c", " ", "Y", " ",
    "1", " ", "2", "/", "1">>

Brief_p_dynamic ==
  <<"p", " ", "d", "y", "n", "a", "m", "i", "c", " ", "N", " ", "2", " ",
    "1", "/", "1">>

\* a row whose Deploy column is neither 'Y' nor 'N'
Brief_po50_lower ==
  <<"p", "o", "5", "0", " ", "d", "y", "n", "a", "m", "i", "c", " ", "y", " ",
    "1", " ", "2", "/", "1">>

LagLines ==
  {Brief_po50, Brief_po50_static, Brief_p_dynamic, Brief_p, Brief_short, Brief_po50_lower}

\* the tables of 0..MaxLags LAGs, closed by a blank line, and an output with no table
LagOutputs ==
  {joinlines(<<Brief_total, Brief_header>> \o rows \o <<<<>>>>) :
     rows \in SeqsUpTo(LagLines, MaxLags)}
    \cup {Brief_total}

\* raw member lists: ports 2/1 and 2/2 in both orders, a port listed twice
MemberStrings ==
  {<<>>, <<0, 2, 0, 1>>, <<0, 2, 0, 1, 0, 2, 0, 2>>, <<0, 2, 0, 2, 0, 2, 0, 1>>,
   <<0, 2, 0, 1, 0, 2, 0, 1>>, <<0, 2, 0, 1, 0, 2, 0, 10>>}

\* 'show lacp lag_name' outputs: both ports complete, port 2/2 without its
\* lines, an error line, and a partner that does not collect
Lacp_actor_2_2 == [Lacp_actor EXCEPT ![3] = "2"]

\* the partner of port 2/2 collects ('Col' where that of 2/1 has 'No')
Lacp_partner_2_2 ==
  <<"2", "/", "2">> \o SubSeq(Lacp_partner, 4, 31) \o <<"C", "o", "l">>
    \o SubSeq(Lacp_partner, 34, Len(Lacp_partner))

Lacp_counts_2_2 == [Lacp_counts EXCEPT ![3] = "2", ![13] = "7"]

\* the lines of port 2/10: a partner that does not collect, nothing
\* received, 9 sent
Lacp_actor_2_10 == <<"2", "/", "1", "0">> \o SubSeq(Lacp_actor, 4, Len(Lacp_actor))

Lacp_partner_2_10 == <<"2", "/", "1", "0">> \o SubSeq(Lacp_partner, 4, Len(Lacp_partner))

Lacp_counts_2_10 ==
  <<"2", "/", "1", "0", " ", "R", "x", " ", "0", " ", "T", "x", " ", "9">>

LacpTexts ==
  {joinlines(<<Lacp_header, Lacp_actor, Lacp_partner, Lacp_counts,
               Lacp_actor_2_2, Lacp_partner_2_2, Lacp_counts_2_2>>),
   joinlines(<<Lacp_header, Lacp_actor, Lacp_partner, Lacp_counts,
               Lacp_actor_2_10, Lacp_partner_2_10, Lacp_counts_2_10>>),
   joinlines(<<Lacp_header, Lacp_actor, Lacp_partner, Lacp_counts>>),
   joinlines(<<Lacp_actor, Cli_error>>),
   <<>>}

Mac_actor == <<0, 1, 16, 255, 0, 2>>

Mac_partner == <<0, 36, 56, 1, 2, 3>>

\* what the device answers to the gets of the dot3adAggTable columns: the
\* priorities and keys as text, the system ids as six octets
Dot3adAnswers ==
  [col \in Range(dot3ad_columns) |->
     CASE col = "dot3adAggActorSystemPriority" -> <<"1">>
       [] col = "dot3adAggActorSystemID" -> Mac_actor
       [] col = "dot3adAggPartnerSystemPriority" -> <<"2">>
       [] col = "dot3adAggPartnerSystemID" -> Mac_partner
       [] col = "dot3adAggActorAdminKey" -> <<"3">>
       [] col = "dot3adAggActorOperKey" -> <<"4">>
       [] col = "dot3adAggPartnerOperKey" -> <<"5">>]

Devices ==
  {[ifindex |-> [n \in {po50, <<"p">>} |-> IF n = po50 THEN i ELSE 7], lag_id |-> 50,
    dot3ad |-> Dot3adAnswers, members |-> m, lacp |-> t] :
     i \in SnmpInts, m \in MemberStrings, t \in LacpTexts}

\* the sequences that list every element of S once
KeyOrders(S) ==
  {o \in [1..Cardinality(S) -> S] : \A i, j \in 1..Cardinality(S) : o[i] = o[j] => i = j}

\* lines of the output of show ip / show ipv6 interface
Ip_v4 ==
  <<" ", " ", "i", "p", " ", "a", "d", "d", "r", "e", "s", "s", ":", " ",
    "1", "0", ".", "0", ".", "0", ".", "1", "/", "2", "4">>

\* the address line with one leading blank less
Ip_v4_short ==
  <<" ", "i", "p", " ", "a", "d", "d", "r", "e", "s", "s", ":", " ", "1",
    "0", ".", "0", ".", "0", ".", "1", "/", "2", "4">>

Ip_v4_plain ==
  <<"i", "p", " ", "a", "d", "d", "r", "e", "s", "s", ":", " ", "1", "0",
    ".", "0", ".", "0", ".", "1", "/", "2", "4">>

Ip_v6_enabled ==
  <<"I", "P", "v", "6", " ", "i", "s", " ", "e", "n", "a", "b", "l", "e",
    "d">>

Ip_v6_preferred ==
  <<" ", "2", "0", "0", "1", ":", ":", "1", " ", "[", "P", "r", "e", "f",
    "e", "r", "r", "e", "d", "]", ",", " ", " ", "s", "u", "b", "n", "e",
    "t", " ", "i", "s", " ", "2", "0", "0", "1", ":", ":", "/", "6", "4">>

Ip_no_address ==
  <<"n", "o", " ", "a", "d", "d", "r", "e", "s", "s">>

\* lines of show running-config interface
Run_ipv6 ==
  <<" ", "i", "p", "v", "6", " ", "a", "d", "d", "r", "e", "s", "s", ":",
    " ", "2", "0", "0", "1", ":", ":", "1", "/", "6", "4">>

Run_ipv6_nocolon ==
  <<" ", "i", "p", "v", "6", " ", "a", "d", "d", "r", "e", "s", "s", " ",
    "2", "0", "0", "1", ":", ":", "2", "/", "6", "4">>

Run_ipv6_link_local ==
  <<" ", "i", "p", "v", "6", " ", "a", "d", "d", "r", "e", "s", "s", " ",
    "f", "e", "8", "0", ":", ":", "1", " ", "l", "i", "n", "k", "-", "l",
    "o", "c", "a", "l">>

Vrf_red ==
  <<"P", "o", "r", "t", " ", "b", "e", "l", "o", "n", "g", "s", " ", "t",
    "o", " ", "V", "R", "F", ":", " ", "r", "e", "d">>

\* the label with nothing after it
Vrf_blank ==
  <<"P", "o", "r", "t", " ", "b", "e", "l", "o", "n", "g", "s", " ", "t",
    "o", " ", "V", "R", "F", ":", " ">>

\* lines of show vlan | inc Ve
Vlan_ve ==
  <<"V", "e", "2", "0", "0", " ", "i", "s", " ", "u", "p">>

Vlan_untagged ==
  <<"U", "n", "t", "a", "g", "g", "e", "d", " ", "P", "o", "r", "t", "s",
    ":", " ", "n", "o", "n", "e">>

\* lines of show running-config interface | inc ve
Conf_ve10 ==
  <<"i", "n", "t", "e", "r", "f", "a", "c", "e", " ", "v", "e", " ", "1",
    "0">>

Conf_ve20 ==
  <<"i", "n", "t", "e", "r", "f", "a", "c", "e", " ", "v", "e", " ", "2",
    "0">>

Conf_eth ==
  <<"i", "n", "t", "e", "r", "f", "a", "c", "e", " ", "e", "t", "h", "e",
    "r", "n", "e", "t", " ", "1", "/", "1">>

\* lines of show ip interface | inc ve
Brief_ve10 ==
  <<"v", "e", " ", "1", "0", " ", "1", "0", ".", "0", ".", "0", ".", "1",
    " ", "Y", "E", "S", " ", "N", "V", "R", "A", "M", " ", "u", "p", " ",
    "u", "p">>

Brief_ve20_short ==
  <<"v", "e", " ", "2", "0", " ", "u", "p">>

Brief_eth ==
  <<"e", "t", "h", " ", "1", "/", "1", " ", "1", "0", ".", "0", ".", "0",
    ".", "9", " ", "Y", "E", "S", " ", "N", "V", "R", "A", "M", " ", "u",
    "p", " ", "u", "p">>

Chars_red ==
  <<"r", "e", "d">>

Chars_10_0_0_1 ==
  <<"1", "0", ".", "0", ".", "0", ".", "1", "/", "2", "4">>

Chars_2001 ==
  <<"2", "0", "0", "1", ":", ":", "1", "/", "6", "4">>

Chars_bogus ==
  <<"1", ".", "2", ".", "3">>

\* texts of 0..MaxTextLines lines taken from S
Texts(S) == {joinlines(ls) : ls \in SeqsUpTo(S, MaxTextLines)}

GetIpArgs ==
  {[int_type |-> "Ethernet", name |-> Port_2_1, version |-> v] : v \in {4, 5, 6}}

GetIpOutputs ==
  Texts({Ip_v4, Ip_v4_short, Ip_v6_enabled, Ip_v6_preferred, Ip_no_address, Cli_error})

AddIntVrfArgs ==
  {[int_type |-> t, name |-> <<"2", "0", "0">>, enable |-> e, get |-> g,
    vrf_name |-> Chars_red] :
     t \in {"VE", "ve", "ethernet", "gigabitethernet"}, e \in BOOLEAN, g \in BOOLEAN}

VrfOutputs == Texts({Vrf_red, Vrf_blank, Cli_error, Cli_error_nocolon, Cli_ok})

VlanRouterVeArgs ==
  {[vlan_id |-> v, ve_config |-> <<"2", "0", "0">>, has_ve_config |-> h, get |-> g,
    delete |-> d] :
     v \in {<<"1", "0", "0">>, <<"0">>, <<"4", "0", "9", "0">>, <<"4", "0", "9", "1">>, <<"x">>},
     h \in BOOLEAN, g \in BOOLEAN, d \in BOOLEAN}

VlanOutputs == Texts({Vlan_ve, Vlan_untagged, Cli_error})

IpAddrs ==
  {[text |-> Chars_10_0_0_1, version |-> 4], [text |-> Chars_2001, version |-> 6],
   [text |-> Chars_bogus, version |-> 0]}

\* a read (get) takes no address
IpAddressArgs ==
  {[int_type |-> t, name |-> n, get |-> FALSE, delete |-> d, ip_addr |-> i.text,
    version |-> i.version] :
     t \in {"ve", "loopback", "ethernet", "gigabitethernet"},
     n \in {<<"1", "0">>, <<"2", "5", "6">>, Port_2_1}, d \in BOOLEAN, i \in IpAddrs}
    \cup {[int_type |-> t, name |-> n, get |-> TRUE, delete |-> FALSE, ip_addr |-> <<>>,
            version |-> 0] :
            t \in {"ve", "loopback", "ethernet", "gigabitethernet"},
            n \in {<<"1", "0">>, <<"2", "5", "6">>, Port_2_1}}

ShowIpOutputs == Texts({Ip_v4_plain, Ip_no_address, Cli_error})

RunningOutputs ==
  {Run_ipv6, joinlines(<<Run_ipv6_link_local, Run_ipv6>>), Run_ipv6_link_local,
   Run_ipv6_nocolon, joinlines(<<Run_ipv6, Cli_error>>), <<>>}

\* the name -> index mapping of the device: port 2/2 has no index, a port of
\* an unknown type is listed, another is not
NameIds ==
  [k \in {<<"ethernet">> \o Port_2_1, <<"ethernet">> \o Port_2_2,
          <<"gigabitethernet">> \o Port_2_1} |->
     IF k = <<"ethernet">> \o Port_2_1 THEN PyInt(65)
     ELSE IF k = <<"ethernet">> \o Port_2_2 THEN None
     ELSE PyInt(66)]

\* what the transport callback does: it answers a value or raises
Answered(v) == [exc |-> "", msg |-> <<>>, val |-> v]

Raised(e, m) == [exc |-> e, msg |-> m, val |-> None]

Callbacks == {"1", "2", "True", "red", "AttributeError", "Exception"}

Callback(c) ==
  CASE c = "1" -> Answered(PyInt(1))
    [] c = "2" -> Answered(PyInt(2))
    [] c = "True" -> Answered(PyBool(TRUE))
    [] c = "red" -> Answered(PyStr(Chars_red))
    [] c = "AttributeError" ->
         Raised("AttributeError", <<"'NoneType' object has no attribute 'send'">>)
    [] c = "Exception" -> Raised("Exception", <<"timeout">>)

\* values of the argument enabled
Enableds == {"True", "False", "yes", "None"}

Enabled(e) ==
  CASE e = "True" -> PyBool(TRUE)
    [] e = "False" -> PyBool(FALSE)
    [] e = "yes" -> PyStr(<<"y", "e", "s">>)
    [] e = "None" -> None

AdminStateTypes == {"Ethernet", "ethernet", "gigabitethernet"}

DescriptionArgs ==
  {[int_type |-> t, name |-> n, get |-> g, desc |-> Chars_red, has_desc |-> h] :
     t \in {"ethernet", "gigabitethernet"}, n \in {Port_2_1, Port_2_2},
     g \in BOOLEAN, h \in BOOLEAN}

VeConfigOutputs == Texts({Conf_ve10, Conf_ve20, Conf_eth})

VeBriefOutputs == Texts({Brief_ve10, Brief_ve20_short, Brief_eth})

VeIpOutputs == {Ip_v4_plain, Ip_no_address, <<>>}

\* the keyword arguments of an ACL rule that the two parsers read
AclKeys == {"mirror", "log", "action"}

AclFlags == {Str("True"), Str("False"), Str(""), Bool(TRUE), Bool(FALSE)}

AclActions == {Str("permit"), Str("deny"), Str("")}

AclParameters(keys, mirror, log, action) ==
  [k \in keys |-> CASE k = "mirror" -> mirror
                    [] k = "log" -> log
                    [] k = "action" -> action]

\* sequence ids around both ends of the range
SeqIds == {-2, -1, 0, 1, 2, 50, SeqIdLimit - 1, SeqIdLimit, SeqIdLimit + 1}

\* an ACL name of exactly n characters
LongAclName(n) == [i \in 1..n |-> IF i % 2 = 1 THEN "a" ELSE "l"]

\* ACL names: the short ones over the letters of 'all', the spellings of
\* the reserved names and their neighbours, and the names around the limit
AclNames ==
  SeqsUpTo({"a", "A", "l", "L"}, MaxNameLen)
    \cup {Chars_all, <<"A", "l", "l">>, <<"A", "L", "L">>, <<"a", "L", "l">>,
          <<"a", "l", "l", "s">>, Chars_test, <<"T", "e", "s", "t">>,
          <<"T", "E", "S", "T">>, <<"t", "e", "s", "T">>, <<"t", "e", "s">>,
          <<"t", "e", "s", "t", "s">>,
          LongAclName(MaxAclNameLen - 1), LongAclName(MaxAclNameLen),
          LongAclName(MaxAclNameLen + 1)}

\* VLAN lists, with and without a description, and the invocation that fails
AddVlanArgs ==
  {[vlan_id_list |-> l, desc_none |-> dn, desc |-> IF dn THEN <<>> ELSE Chars_red,
    fail_at |-> f] :
     l \in SeqsUpTo({700, 800}, MaxVlans), dn \in BOOLEAN, f \in 0..(MaxVlans + 1)}

(***************************************************************************)
(* State: the last call made on the Interface object.                      *)
(***************************************************************************)
\* loop: the state of get_port_channel_list's loop while it runs
VARIABLES op, arg, reqs, lookups, ret, loop

vars == <<op, arg, reqs, lookups, ret, loop>>

NoLoop == LoopStart(<<>>)

Init ==
  /\ op = "none"
  /\ arg = <<>>
  /\ reqs = <<>>
  /\ lookups = <<>>
  /\ ret = [exc |-> "", kind |-> "none", msg |-> <<>>, val |-> <<>>]
  /\ loop = NoLoop

\* The object keeps nothing from one call to the next: every call is made
\* on the object as constructed (op = "none").
Call(o, a, out) ==
  /\ op' = o
  /\ arg' = a
  /\ reqs' = out.reqs
  /\ lookups' = out.lookups
  /\ ret' = out.ret
  /\ loop' = NoLoop

GetPortChannelIfindex ==
  /\ op = "none"
  /\ \E a \in LagNameArgs, value \in SnmpInts :
       Call("get_port_channel_ifindex", a, get_port_channel_ifindex(a, value))

GetPortChannelId ==
  /\ op = "none"
  /\ \E a \in LagNameArgs, value \in SnmpInts :
       Call("get_port_channel_id", a, get_port_channel_id(a, value))

GetPortChannelMemberPorts ==
  /\ op = "none"
  /\ \E a \in LagNameArgs, lag_grp_list \in OctetStrings :
       Call("get_port_channel_member_ports", a,
            get_port_channel_member_ports(a, lag_grp_list))

GetLagIdNameMap ==
  /\ op = "none"
  /\ \E port_int \in PortInts, rows \in LagTables :
       Call("get_lag_id_name_map", [lag_id |-> str(port_int)],
            get_lag_id_name_map(str(port_int), rows))

RemovePortChannel ==
  /\ op = "none"
  /\ \E port_int \in PortInts, rows \in LagTables, ret_value \in BOOLEAN :
       Call("remove_port_channel", [port_int |-> port_int],
            remove_port_channel(port_int, rows, ret_value))

\* get_port_channel_list sends its command and is about to read the output
GetPortChannelList ==
  /\ op = "none"
  /\ \E output \in BriefOutputs :
       /\ op' = "get_port_channel_list"
       /\ arg' = <<>>
       /\ reqs' = <<Request("cli-get", <<"show lag brief">>, output)>>
       /\ lookups' = <<>>
       /\ ret' = Running
       /\ loop' = LoopStart(output)

\* one iteration of its loop, and the return when that was the last one
LagBriefLine ==
  /\ op = "get_port_channel_list"
  /\ ret.kind = "running"
  /\ loop' = lag_brief_step(loop)
  /\ ret' = IF loop'.exc # "" THEN ListIndexOutOfRange
            ELSE IF LoopOver(loop') THEN Return(loop'.po_list)
            ELSE Running
  /\ UNCHANGED <<op, arg, reqs, lookups>>

GetLacpMemberInfo ==
  /\ op = "none"
  /\ \E intf_name \in IntfNames, output \in LacpOutputs :
       Call("get_lacp_member_info", [intf_name |-> intf_name, lag_name |-> po50],
            get_lacp_member_info(po50, intf_name, output))

CreatePortChannel ==
  /\ op = "none"
  /\ \E a \in CreateArgs, output \in CliOutputs :
       Call("create_port_channel", a, create_port_channel(a, output))

AccVlan ==
  /\ op = "none"
  /\ \E a \in AccVlanArgs, cli_res \in CliOutputs :
       Call("acc_vlan", a, acc_vlan(a, cli_res))

\* the dict of member ports yields its keys in an order the language does
\* not fix: every order is taken
PortChannels ==
  /\ op = "none"
  /\ \E output \in LagOutputs, dev \in Devices :
       \E order \in KeyOrders(DOMAIN get_interface_id_name_mapping(member_list(dev.members))) :
          Call("port_channels", [dev |-> dev, order |-> order],
               port_channels(output, dev, order))

GetIpAddresses ==
  /\ op = "none"
  /\ \E a \in GetIpArgs, cli_output \in GetIpOutputs :
       Call("get_ip_addresses", a, get_ip_addresses(a, cli_output))

AddIntVrf ==
  /\ op = "none"
  /\ \E a \in AddIntVrfArgs, cli_res \in VrfOutputs :
       Call("add_int_vrf", a, add_int_vrf(a, cli_res))

VlanRouterVe ==
  /\ op = "none"
  /\ \E a \in VlanRouterVeArgs, cli_res \in VlanOutputs :
       Call("vlan_router_ve", a, vlan_router_ve(a, cli_res))

IpAddress ==
  /\ op = "none"
  /\ \E a \in IpAddressArgs, cli_res \in ShowIpOutputs, cli_res2 \in RunningOutputs :
       /\ a.get \/ cli_res2 = <<>>
       /\ Call("ip_address", a, ip_address(a, cli_res, cli_res2))

AdminState ==
  /\ op = "none"
  /\ \E t \in AdminStateTypes, n \in {Port_2_1, Port_2_2}, g \in BOOLEAN, e \in Enableds,
        c \in Callbacks :
       /\ g <=> e = "None"
       /\ LET a == [int_type |-> t, name |-> n, get |-> g, enabled |-> Enabled(e)]
          IN Call("admin_state", a, admin_state(a, NameIds, Callback(c)))

Description ==
  /\ op = "none"
  /\ \E a \in DescriptionArgs, c \in Callbacks :
       Call("description", a, description(a, NameIds, Callback(c)))

VeInterfaces ==
  /\ op = "none"
  /\ \E output \in VeConfigOutputs, output2 \in VeBriefOutputs, cli_out \in VeIpOutputs :
       Call("ve_interfaces", [cli_out |-> cli_out],
            ve_interfaces(output, output2, cli_out))

ParseMirror ==
  /\ op = "none"
  /\ \E keys \in SUBSET AclKeys, mirror \in AclFlags, log \in AclFlags,
        action \in AclActions :
       LET parameters == AclParameters(keys, mirror, log, action)
       IN Call("parse_mirror", parameters, Outcome(<<>>, <<>>, parse_mirror(parameters)))

ParseLog ==
  /\ op = "none"
  /\ \E keys \in SUBSET AclKeys, mirror \in AclFlags, log \in AclFlags,
        action \in AclActions :
       LET parameters == AclParameters(keys, mirror, log, action)
       IN Call("parse_log", parameters, Outcome(<<>>, <<>>, parse_log(parameters)))

ParseSeqId ==
  /\ op = "none"
  /\ \E keys \in SUBSET {"seq_id"}, seq_id \in SeqIds :
       LET parameters == [k \in keys |-> seq_id]
       IN Call("parse_seq_id", parameters, Outcome(<<>>, <<>>, parse_seq_id(parameters)))

ParseAclName ==
  /\ op = "none"
  /\ \E keys \in SUBSET {"acl_name"}, acl_name \in AclNames :
       LET parameters == [k \in keys |-> acl_name]
       IN Call("parse_acl_name", parameters,
               Outcome(<<>>, <<>>, parse_acl_name(parameters)))

AddVlanInt ==
  /\ op = "none"
  /\ \E a \in AddVlanArgs, output \in {<<>>, Cli_error} :
       /\ a.fail_at <= Len(a.vlan_id_list) + 1
       /\ Call("add_vlan_int", a, add_vlan_int(a, output))

Next ==
  \/ GetPortChannelIfindex
  \/ GetPortChannelId
  \/ GetPortChannelMemberPorts
  \/ GetLagIdNameMap
  \/ RemovePortChannel
  \/ GetPortChannelList
  \/ LagBriefLine
  \/ GetLacpMemberInfo
  \/ CreatePortChannel
  \/ AccVlan
  \/ PortChannels
  \/ GetIpAddresses
  \/ AddIntVrf
  \/ VlanRouterVe
  \/ IpAddress
  \/ AdminState
  \/ Description
  \/ VeInterfaces
  \/ ParseMirror
  \/ ParseLog
  \/ ParseSeqId
  \/ ParseAclName
  \/ AddVlanInt

Spec == Init /\ [][Next]_vars

(***************************************************************************)
(* Properties.                                                             *)
(***************************************************************************)
\* [len(name), ord(name[0]), ..., ord(name[len-1])]
ExpectedIndex(name) == <<Len(name)>> \o [i \in 1..Len(name) |-> AsciiTable[name[i]]]

\* oid is the prefix of column col, a ".", and the dot-separated ExpectedIndex
HasIndex(oid, col, name) ==
  LET prefix == mib_oid_map[col]
      n == Len(prefix)
      parts == split(SubSeq(oid, n + 2, Len(oid)), ".")
  IN /\ Len(oid) > n + 1
     /\ SubSeq(oid, 1, n) = prefix
     /\ oid[n + 1] = "."
     /\ \A i \in 1..Len(parts) : Len(parts[i]) > 0
     /\ [i \in 1..Len(parts) |-> int(parts[i], 10)] = ExpectedIndex(name)

Index_po50 ==
  <<".", "4", ".", "1", "1", "2", ".", "1", "1", "1", ".", "5", "3", ".", "4", "8">>

\* the first row of a walk whose id column reads lag_id
MatchingRows(rows, lag_id) == {i \in 1..Len(rows) : str(rows[i].lag_id) = lag_id}

FirstMatch(rows, lag_id) == rows[Min(MatchingRows(rows, lag_id))]

\* C1: for every LAG name of length 1..64 the OID requested by
\* get_port_channel_ifindex, get_port_channel_id, get_port_channel_member_ports
\* and remove_port_channel is the column prefix followed by the dot-separated
\* sequence [len(name), ord(name[0]), ..., ord(name[len-1])]; for 'po50' the
\* suffix is 4.112.111.53.48.
C1_IndexEncoding ==
  /\ (op = "get_port_channel_ifindex" /\ ret.kind = "return") =>
        /\ Len(reqs) = 1
        /\ HasIndex(reqs[1].payload, "fdryLinkAggregationGroupIfIndex", arg.lag_name)
        /\ (arg.lag_name = po50 =>
              reqs[1].payload = mib_oid_map["fdryLinkAggregationGroupIfIndex"] \o Index_po50)
  /\ (op = "get_port_channel_id" /\ ret.kind = "return") =>
        /\ Len(reqs) = 1
        /\ HasIndex(reqs[1].payload, "fdryLinkAggregationGroupId", arg.lag_name)
        /\ (arg.lag_name = po50 =>
              reqs[1].payload = mib_oid_map["fdryLinkAggregationGroupId"] \o Index_po50)
  /\ (op = "get_port_channel_member_ports" /\ ret.kind = "return") =>
        /\ Len(reqs) = 1
        /\ HasIndex(reqs[1].payload, "fdryLinkAggregationGroupIfList", arg.lag_name)
        /\ (arg.lag_name = po50 =>
              reqs[1].payload = mib_oid_map["fdryLinkAggregationGroupIfList"] \o Index_po50)
  /\ (op = "remove_port_channel" /\ ret.kind = "return") =>
        LET row == FirstMatch(reqs[1].answer, str(arg.port_int))
        IN /\ Len(reqs) = 2
           /\ HasIndex(reqs[2].payload[1], "fdryLinkAggregationGroupRowStatus", row.name)
           /\ (row.name = po50 =>
                 reqs[2].payload[1] =
                   mib_oid_map["fdryLinkAggregationGroupRowStatus"] \o Index_po50)

C1_Witness ==
  /\ op = "get_port_channel_ifindex"
  /\ ret.kind = "return"
  /\ arg.lag_name = po50
  /\ reqs[1].payload = mib_oid_map["fdryLinkAggregationGroupIfIndex"] \o Index_po50

LagNameOps ==
  {"get_port_channel_ifindex", "get_port_channel_id", "get_port_channel_member_ports"}

\* C2: when the LAG name is missing or its length is outside 1..64,
\* get_port_channel_ifindex, get_port_channel_id and
\* get_port_channel_member_ports raise the name error and have made no
\* request to the transport callback.
C2_NameChecked ==
  (op \in LagNameOps /\ (arg.none \/ Len(arg.lag_name) < 1 \/ Len(arg.lag_name) > 64)) =>
     /\ ret.kind = "raise"
     /\ ret.exc = "ValueError"
     /\ ret.msg \in {<<"Port-channel name is NULL">>,
                     <<"Port-channel name should be 1-64 characters">>}
     /\ reqs = <<>>

C2_Witness ==
  /\ op = "get_port_channel_member_ports"
  /\ ~arg.none
  /\ Len(arg.lag_name) = 65
  /\ ret.kind = "raise"
  /\ reqs = <<>>

\* C3: round trip: the name get_lag_id_name_map decodes from a row index that
\* the encoder produced for a name of length 1..64 is that name.
C3_RoundTrip ==
  (op = "get_lag_id_name_map" /\ ret.kind = "return" /\ ret.val.found) =>
     LET row == FirstMatch(reqs[1].answer, arg.lag_id)
     IN /\ row.row_id = lag_index(row.name)
        /\ ret.val.lag_name = row.name

C3_Witness ==
  /\ op = "get_lag_id_name_map"
  /\ ret.kind = "return"
  /\ ret.val.found
  /\ ret.val.lag_name = LongName(64)

\* the raw octet string the device answered and the indices decoded from it
RawMembers == reqs[1].answer

DecodedMembers == lookups[1]

MemberPortsDecoded == op = "get_port_channel_member_ports" /\ ret.kind = "return"

\* C4: an octet string of length 4k decodes to exactly k indices, the i-th
\* from octets 4i..4i+3 (counted from 0), in the order of the string: equal
\* groups stay separate entries and no entry moves.
C4_OnePerGroupInOrder ==
  (MemberPortsDecoded /\ Len(RawMembers) % 4 = 0) =>
     /\ Len(DecodedMembers) * 4 = Len(RawMembers)
     /\ \A i \in 1..Len(DecodedMembers) :
          DecodedMembers[i] =
            member_list(SubSeq(RawMembers, 4 * i - 3, 4 * i))[1]

C4_Witness ==
  /\ MemberPortsDecoded
  /\ RawMembers = <<0, 0, 1, 0, 0, 0, 0, 1>>
  /\ DecodedMembers = <<Limbs(0, 256), Limbs(0, 1)>>

\* C5: each decoded index is the unsigned 32-bit big-endian value
\* b0*2^24 + b1*2^16 + b2*2^8 + b3 of its group, i.e. the limbs
\* (b0*2^8 + b1, b2*2^8 + b3), whatever the octets are (0x00, 0x01, 0x10, ...).
C5_BigEndianValue ==
  MemberPortsDecoded =>
     \A i \in 1..Len(DecodedMembers) :
        /\ 4 * i <= Len(RawMembers)
        /\ DecodedMembers[i].hi = RawMembers[4 * i - 3] * 256 + RawMembers[4 * i - 2]
        /\ DecodedMembers[i].lo = RawMembers[4 * i - 1] * 256 + RawMembers[4 * i]

C5_Witness ==
  /\ MemberPortsDecoded
  /\ RawMembers = <<255, 16, 1, 0>>
  /\ DecodedMembers = <<Limbs(65296, 256)>>

\* C6: an octet string whose length is not a multiple of 4 makes the
\* member-port decoding fail with MalformedPayload.
C6_MalformedPayload ==
  (op = "get_port_channel_member_ports" /\ Len(reqs) = 1 /\ Len(RawMembers) % 4 # 0) =>
     /\ ret.kind = "raise"
     /\ ret.exc = "MalformedPayload"

\* the lines of the CLI output of the call
OutputLines == split(reqs[1].answer, "\n")

IsHeader(line) == contains(line, Chars_Deploy)

Finished == ret.kind \in {"return", "raise"}

\* the positions of the first header line and of the first blank line after it
\* (one past the last line when there is none)
FirstHeader ==
  Min({i \in 1..Len(OutputLines) : IsHeader(OutputLines[i])} \cup {Len(OutputLines) + 1})

FirstBlankAfterHeader ==
  Min({i \in (FirstHeader + 1)..Len(OutputLines) : OutputLines[i] = <<>>}
        \cup {Len(OutputLines) + 1})

\* C7: for an output made of a preamble, a header line containing 'Deploy',
\* N non-blank data lines of at least five columns and a trailing blank line,
\* get_port_channel_list returns exactly N records, one per data line, in
\* line order.
C7_OneRecordPerDataLine ==
  (/\ op = "get_port_channel_list"
   /\ Finished
   /\ FirstHeader < Len(OutputLines)
   /\ FirstBlankAfterHeader = Len(OutputLines)
   /\ \A i \in (FirstHeader + 1)..(Len(OutputLines) - 1) :
        Len(split_ws(OutputLines[i])) >= 5)
  => /\ ret.kind = "return"
     /\ Len(ret.val) = Len(OutputLines) - FirstHeader - 1
     /\ \A i \in 1..Len(ret.val) :
          ret.val[i][1] = split_ws(OutputLines[FirstHeader + i])[1]

PState == IF loop.done THEN "DONE"
          ELSE IF loop.start_parse THEN "IN_TABLE"
          ELSE "SEEKING_HEADER"

C8_State ==
  op = "get_port_channel_list" =>
     /\ PState = "SEEKING_HEADER" => loop.po_list = <<>>
     /\ FirstHeader <= Len(OutputLines) =>
          Len(loop.po_list) <= FirstBlankAfterHeader - FirstHeader - 1
     /\ FirstHeader > Len(OutputLines) => loop.po_list = <<>>
     /\ PState = "DONE" =>
          /\ ret = Return(loop.po_list)
          /\ Len(loop.items) = Len(OutputLines) - FirstBlankAfterHeader
     /\ ret.kind = "return" => ret.val = loop.po_list

C8_Step ==
  (op = "get_port_channel_list" /\ op' = "get_port_channel_list") =>
     /\ <<PState, PState'>> \in
          {<<"SEEKING_HEADER", "SEEKING_HEADER">>, <<"SEEKING_HEADER", "IN_TABLE">>,
           <<"IN_TABLE", "IN_TABLE">>, <<"IN_TABLE", "DONE">>}
     /\ loop'.po_list # loop.po_list =>
          /\ PState = "IN_TABLE"
          /\ PState' = "IN_TABLE"
          /\ Len(loop'.po_list) = Len(loop.po_list) + 1

\* C8: the parse goes SEEKING_HEADER -> IN_TABLE -> DONE and nowhere else: no
\* record comes from a line before the first header line, records are added
\* only while IN_TABLE, and at the first blank line after the header the
\* parse is DONE: the call returns what it has and reads no later line.
C8_ParseStateMachine == []C8_State /\ [][C8_Step]_vars

C8_Witness ==
  /\ op = "get_port_channel_list"
  /\ PState = "DONE"
  /\ ret.kind = "return"
  /\ Len(ret.val) = 1
  /\ \E i \in 1..Len(loop.items) : IsHeader(loop.items[i])

\* the positions of the output lines that contain 'Error'
ErrorLines == {i \in 1..Len(OutputLines) : contains(OutputLines[i], Chars_Error)}

CliOps == {"get_port_channel_list", "get_lacp_member_info", "create_port_channel", "acc_vlan"}

\* C9: in every CLI-sourced operation, when a line of the CLI output contains
\* 'Error' the operation fails with an error that carries the text of such a
\* line, whatever else the output contains.
C9_UniformErrorPolicy ==
  (op \in CliOps /\ Finished /\ Len(reqs) = 1 /\ ErrorLines # {}) =>
     /\ ret.kind = "raise"
     /\ \E i \in ErrorLines : contains(ret.msg, OutputLines[i])

\* C10: in get_lacp_member_info and create_port_channel a line containing
\* 'Error', wherever it stands in the output, makes the call raise an error
\* whose message contains the text of that line; no result is returned.
C10_ErrorLineShortCircuits ==
  (/\ op \in {"get_lacp_member_info", "create_port_channel"}
   /\ Finished
   /\ Len(reqs) = 1
   /\ ErrorLines # {})
  => /\ ret.kind = "raise"
     /\ \E i \in ErrorLines : contains(ret.msg, OutputLines[i])

StartsWith(s, pre) == Len(s) >= Len(pre) /\ SubSeq(s, 1, Len(pre)) = pre

PcReturned == op = "port_channels" /\ ret.kind = "return"

\* the k-th data row of the summary table, and what it says of the LAG
LagRow(k) == split_ws(OutputLines[FirstHeader + k])

RowDynamicDeployed(k) == LagRow(k)[2] = Chars_dynamic /\ LagRow(k)[3] = <<"Y">>

\* the requests of a port_channels call fall into one segment per LAG, each
\* starting with the get of the LAG's ifindex
IfIndexGets ==
  {i \in 1..Len(reqs) :
     /\ reqs[i].handler = "snmp-get"
     /\ StartsWith(reqs[i].payload, mib_oid_map["fdryLinkAggregationGroupIfIndex"] \o <<".">>)}

SegStart(k) == CHOOSE i \in IfIndexGets : Cardinality({j \in IfIndexGets : j < i}) = k - 1

SegEnd(k) == IF k < Cardinality(IfIndexGets) THEN SegStart(k + 1) - 1 ELSE Len(reqs)

Segment(k) == SubSeq(reqs, SegStart(k), SegEnd(k))

IsDot3adGet(r) ==
  /\ r.handler = "snmp-get"
  /\ \E col \in Range(dot3ad_columns) :
       StartsWith(r.payload, SnmpMib_mib_oid_map[col] \o <<".">>)

IsShowLacp(r) == r.handler = "cli-get" /\ r.payload[1] = "show lacp lag_name "

LacpFieldKeys ==
  <<"system_priority", "actor_system_id", "partner-oper-priority", "partner-system-id",
    "admin-key", "oper-key", "partner-oper-key">>

\* C11: for every LAG whose row says static, or not deployed, the record of
\* port_channels has the seven LACP fields equal to '', rx-link-count,
\* tx-link-count and ready-agg equal to 0 and sync '0' for every member, and
\* the call makes no dot3ad get and no 'show lacp' request for that LAG.
C11_StaticDefaults ==
  /\ PcReturned =>
       \A k \in 1..Len(ret.val) :
          /\ ret.val[k]["interface-name"] = LagRow(k)[1]
          /\ ~RowDynamicDeployed(k) =>
               /\ \A f \in Range(LacpFieldKeys) : ret.val[k][f] = <<>>
               /\ ret.val[k]["rx-link-count"] = 0
               /\ ret.val[k]["tx-link-count"] = 0
               /\ ret.val[k]["ready-agg"] = 0
               /\ \A m \in 1..Len(ret.val[k]["interfaces"]) :
                    ret.val[k]["interfaces"][m]["sync"] = "0"
  /\ (op = "port_channels" /\ Finished) =>
       \A k \in 1..Cardinality(IfIndexGets) :
          ~RowDynamicDeployed(k) =>
             \A i \in 1..Len(Segment(k)) :
                ~IsDot3adGet(Segment(k)[i]) /\ ~IsShowLacp(Segment(k)[i])

C11_Witness ==
  /\ PcReturned
  /\ Len(ret.val) = 2
  /\ LagRow(1) = split_ws(Brief_po50_static)
  /\ LagRow(2) = split_ws(Brief_p_dynamic)
  /\ Len(ret.val[1]["interfaces"]) = 2
  /\ ret.val[2]["system_priority"] = <<>>
  /\ Len(Segment(2)) = 3

\* the octets a colon-separated hex string spells
MacOctets(text) ==
  LET parts == split(text, ":") IN [i \in 1..Len(parts) |-> int(parts[i], 16)]

\* the positions in the segment of LAG k of its 'show lacp' requests
ShowLacpAt(k) == {i \in 1..Len(Segment(k)) : IsShowLacp(Segment(k)[i])}

\* C12: for every LAG whose row says dynamic and deployed, port_channels,
\* after the 'show lag brief' scrape and the get of the LAG's ifindex, makes
\* the seven dot3ad gets, each on its column indexed by the ifindex the device
\* answered, in the order of the code, and after them one 'show lacp
\* lag_name <name>' scrape per member port; the record holds the values the
\* device answered (the two system ids as colon-separated hex).
C12_DynamicFetched ==
  PcReturned =>
     \A k \in 1..Len(ret.val) :
        RowDynamicDeployed(k) =>
           LET seg == Segment(k)
               rec == ret.val[k]
           IN /\ reqs[1].handler = "cli-get"
              /\ reqs[1].payload = <<"show lag brief">>
              /\ SegStart(k) > 1
              /\ {i \in 1..Len(seg) : IsDot3adGet(seg[i])} = 3..9
              /\ \A j \in 1..7 :
                   seg[2 + j].payload =
                     SnmpMib_mib_oid_map[dot3ad_columns[j]] \o <<".">> \o str(seg[1].answer)
              /\ \A i \in ShowLacpAt(k) :
                   /\ i > 9
                   /\ seg[i].payload = <<"show lacp lag_name ">> \o LagRow(k)[1]
              /\ Cardinality(ShowLacpAt(k)) = Len(rec["interfaces"])
              /\ \A j \in {1, 3, 5, 6, 7} : rec[LacpFieldKeys[j]] = seg[2 + j].answer
              /\ \A j \in {2, 4} : MacOctets(rec[LacpFieldKeys[j]]) = seg[2 + j].answer

C12_Witness ==
  /\ PcReturned
  /\ Len(ret.val) = 2
  /\ RowDynamicDeployed(2)
  /\ ret.val[2]["actor_system_id"] = mac_address(Mac_actor)
  /\ ret.val[2]["partner-system-id"] = mac_address(Mac_partner)
  /\ Cardinality(ShowLacpAt(2)) = 2
  /\ ret.val[2]["interfaces"][1]["sync"] # ret.val[2]["interfaces"][2]["sync"]

\* the 'show lacp' text has no error line and, for the port, an ACTR line, a
\* PRTR line and a counter line
ScrapeHasPort(text, port) ==
  LET lines == split(text, "\n")
      of_port(l) == Len(split_ws(l)) >= 2 /\ split_ws(l)[1] = port
  IN /\ \A i \in 1..Len(lines) : ~contains(lines[i], Chars_Error)
     /\ \E i \in 1..Len(lines) : of_port(lines[i]) /\ split_ws(lines[i])[2] = Chars_ACTR
     /\ \E i \in 1..Len(lines) : of_port(lines[i]) /\ split_ws(lines[i])[2] = Chars_PRTR
     /\ \E i \in 1..Len(lines) :
          of_port(lines[i]) /\ split_ws(lines[i])[2] \notin {Chars_ACTR, Chars_PRTR}

\* the summary table has the one row given
OneRowTable(row) == OutputLines = <<Brief_total, Brief_header, row, <<>>>>

\* the member list names ports 2/1 and 2/2, in either order
TwoMembers ==
  arg.dev.members \in {<<0, 2, 0, 1, 0, 2, 0, 2>>, <<0, 2, 0, 2, 0, 2, 0, 1>>}

RecordMembers(k) ==
  [m \in 1..Len(ret.val[k]["interfaces"]) |-> ret.val[k]["interfaces"][m]["actor_port"]]

\* C14: the members listed in a record of port_channels are, in this order,
\* the indices of the 4-octet groups of the LAG's raw member string (the
\* list decoded from it and handed to the index -> name lookup).
C14_MemberOrderKept ==
  PcReturned =>
     \A k \in 1..Len(ret.val) : RecordMembers(k) = lookups[k]


(***************************************************************************)
(* Pattern-match operations and failures.                                  *)
(***************************************************************************)
\* the call ended in an exception that reaches the caller
Failed == ret.kind = "raise"

\* the output the device gave to the k-th request of the call
Answer(k) == reqs[k].answer

\* the read of get_ip_addresses (IPv4) found no 'ip address:' in the output
NoIpv4Field ==
  /\ op = "get_ip_addresses"
  /\ arg.version = 4
  /\ ~contains(Answer(1), Chars_ip_address)

\* the read of vlan_router_ve found no 'Ve<id> is' in the output
NoVeField ==
  /\ op = "vlan_router_ve"
  /\ arg.get
  /\ ~arg.delete
  /\ Len(reqs) = 1
  /\ ~search_ve_is(Answer(1)).found

\* the read of add_int_vrf found neither an error nor 'Port belongs to VRF: '
NoVrfField ==
  /\ op = "add_int_vrf"
  /\ arg.get
  /\ Len(reqs) = 1
  /\ ~contains(Answer(1), Chars_Error)
  /\ ~search_rest(Answer(1), Chars_VRF).found

\* the read of ip_address found no 'ip address: ' in the first output
NoIpAddressField ==
  /\ op = "ip_address"
  /\ arg.get
  /\ Len(reqs) >= 1
  /\ ~contains(Answer(1), Chars_Error)
  /\ ~search_rest(Answer(1), Chars_ip_address \o <<" ">>).found

\* ve_interfaces asked for the address of a VE and the output had no
\* 'ip address:' field
NoVeIpField ==
  /\ op = "ve_interfaces"
  /\ Len(reqs) >= 3
  /\ ~search_rest(Answer(3), Chars_ip_address).found

\* C15: in the pattern-match operations (get_ip_addresses, ip_address with
\* get, add_int_vrf with get, vlan_router_ve with get, ve_interfaces), when a
\* required field pattern does not match the CLI output the operation fails
\* with an error that reaches the caller; it never returns a default (False,
\* None, 'unassigned') in place of the missing field.
C15_FieldNotFound ==
  (NoIpv4Field \/ NoVeField \/ NoVrfField \/ NoIpAddressField \/ NoVeIpField) => Failed

\* the device reported an error line in answer to a request of the call
DeviceErrorLine ==
  /\ op \in {"add_int_vrf", "ip_address", "vlan_router_ve"}
  /\ \E k \in 1..Len(reqs) : search_rest(Answer(k), Chars_Error).found

\* the transport callback raised instead of answering
CallbackFailed ==
  /\ op \in {"admin_state", "description"}
  /\ \E k \in 1..Len(reqs) : Answer(k).exc # ""

\* C16: no operation suppresses a failure: a device-reported error line or a
\* failure raised by the transport callback always reaches the caller as an
\* error; add_int_vrf(get=True) on output with 'Error', and admin_state and
\* description when the callback fails, raise rather than return None.
C16_NoFailureSuppressed == (DeviceErrorLine \/ CallbackFailed) => Failed

\* the arguments that the validation of each operation rejects
RejectedArgs ==
  \/ /\ op \in {"admin_state", "description"}
     /\ lower(arg.int_type) \notin valid_int_types
  \/ /\ op = "admin_state"
     /\ ~arg.get
     /\ arg.enabled.type # "bool"
  \/ /\ op = "create_port_channel"
     /\ ~arg.desc_none
     /\ \/ Len(arg.desc) < 1
        \/ Len(arg.desc) > MaxKeyLen
        \/ arg.portchannel_num < MinPortChannel
        \/ arg.portchannel_num > MaxPortChannel
  \/ /\ op = "acc_vlan"
     /\ \/ arg.int_type \notin valid_int_types
        \/ ~valid_vlan_id(arg.vlan)
  \/ /\ op = "ip_address"
     /\ \/ lower(arg.int_type) \notin valid_int_types
        \/ /\ lower(arg.int_type) = "ve"
           /\ IsDecimal(arg.name)
           /\ ~valid_ve_id(arg.name)
        \/ /\ lower(arg.int_type) = "loopback"
           /\ IsDecimal(arg.name)
           /\ ~valid_loopback_number(arg.name)
  \/ /\ op = "vlan_router_ve"
     /\ IsDecimal(arg.vlan_id)
     /\ ~self_valid_vlan_id(arg.vlan_id)

\* C17: parameters are validated before any device call: whenever
\* admin_state, description, create_port_channel, acc_vlan, ip_address or
\* vlan_router_ve rejects its arguments, no transport callback and no
\* index <-> name lookup has happened in that call.
C17_ValidatedBeforeDeviceCall ==
  RejectedArgs => Failed /\ reqs = <<>> /\ lookups = <<>>


(***************************************************************************)
(* Mirror and log keywords of an ACL rule.                                 *)
(***************************************************************************)
AclOps == {"parse_mirror", "parse_log"}

\* the caller asks for the keyword k: the key is given with a true value
\* other than the string 'False'
Requested(k) == k \in DOMAIN arg /\ truthy(arg[k]) /\ arg[k] # Str("False")

\* the call raised ValueError
RaisedValueError == ret.kind = "raise" /\ ret.exc = "ValueError"

\* the call returned the keyword
ReturnedKeyword(k) == ret.kind = "return" /\ ret.val = PyStr(<<k>>)

ReturnedNone == ret.kind = "return" /\ ret.val = None

\* C18: mirror/log mutual exclusion: for every ACL parameter set in which
\* both log and mirror are requested, parse_mirror and parse_log each raise
\* ValueError; neither returns None or a keyword.
C18_MirrorLogExclusive ==
  (op \in AclOps /\ Requested("mirror") /\ Requested("log")) => RaisedValueError

\* the action is permit, or none is given
Permit == "action" \in DOMAIN arg => arg["action"] \in {Str("permit"), Str("")}

\* C19: a keyword requested alone is parsed to its keyword string and an
\* unrequested one to None: parse_mirror returns 'mirror' when mirror is
\* enabled, log is absent or false and the action is permit, and None when
\* mirror is absent or false; parse_log returns 'log' when log is 'True' and
\* mirror is absent or 'False', and None when log is absent or false.
\* Neither raises for a parameter set that omits the 'mirror' or 'log' key.
C19_KeywordAlone ==
  /\ (op = "parse_mirror" /\ Requested("mirror") /\ ~Requested("log") /\ Permit)
       => ReturnedKeyword("mirror")
  /\ (op = "parse_mirror" /\ ~Requested("mirror")) => ReturnedNone
  /\ (op = "parse_log" /\ "log" \in DOMAIN arg /\ arg["log"] = Str("True")
        /\ ~Requested("mirror"))
       => ReturnedKeyword("log")
  /\ (op = "parse_log" /\ ~Requested("log")) => ReturnedNone

\* C20: mirror is applicable only to permit clauses: for every parameter set
\* with mirror enabled and an action other than 'permit' (e.g. 'deny'),
\* parse_mirror raises ValueError.
C20_MirrorOnlyWithPermit ==
  (op = "parse_mirror" /\ Requested("mirror") /\ ~Permit) => RaisedValueError


(***************************************************************************)
(* Sequence ids and names of an ACL.                                       *)
(***************************************************************************)
SeqIdGiven == "seq_id" \in DOMAIN arg

SeqIdInRange == arg["seq_id"] >= 1 /\ arg["seq_id"] <= 214748364

\* C21: parse_seq_id accepts exactly the sequence ids 1..214748364: it
\* returns the decimal string of seq_id for every integer in the range,
\* returns None only when seq_id is not supplied, and raises ValueError for
\* every supplied integer outside the range (0, negative values, 214748365).
C21_SeqIdRange ==
  op = "parse_seq_id" =>
    /\ (SeqIdGiven /\ SeqIdInRange) =>
         (ret.kind = "return" /\ ret.val = PyStr(str(arg["seq_id"])))
    /\ ReturnedNone => ~SeqIdGiven
    /\ (SeqIdGiven /\ ~SeqIdInRange) => RaisedValueError

AclNameGiven == "acl_name" \in DOMAIN arg

\* the name is 'all' or 'test' in some letter case
ReservedName(name) ==
  \/ /\ Len(name) = 3
     /\ name[1] \in {"a", "A"}
     /\ name[2] \in {"l", "L"}
     /\ name[3] \in {"l", "L"}
  \/ /\ Len(name) = 4
     /\ name[1] \in {"t", "T"}
     /\ name[2] \in {"e", "E"}
     /\ name[3] \in {"s", "S"}
     /\ name[4] \in {"t", "T"}

AclNameAccepted ==
  /\ AclNameGiven
  /\ Len(arg["acl_name"]) >= 1
  /\ Len(arg["acl_name"]) <= 255
  /\ ~ReservedName(arg["acl_name"])

\* C22: parse_acl_name returns the name unchanged for every name of length
\* 1..255 that is not 'all' or 'test' in any letter case, and raises
\* ValueError for a missing or empty name, a name longer than 255
\* characters, and any case variant of 'all' or 'test'.
C22_AclName ==
  op = "parse_acl_name" =>
    IF AclNameAccepted THEN ret.kind = "return" /\ ret.val = PyStr(arg["acl_name"])
    ELSE RaisedValueError

\* a reserved name written with capital letters was refused
C22_Witness ==
  /\ op = "parse_acl_name"
  /\ AclNameGiven
  /\ ReservedName(arg["acl_name"])
  /\ arg["acl_name"] \notin {Chars_all, Chars_test}
  /\ RaisedValueError


(***************************************************************************)
(* LACP status of a member port.                                           *)
(***************************************************************************)
\* the line describes port P: its first column is P
DescribesPort(line, P) == Len(split_ws(line)) > 0 /\ split_ws(line)[1] = P

\* the line names a port of which P is a part, not P
NamesLongerPort(line, P) ==
  /\ Len(split_ws(line)) > 0
  /\ split_ws(line)[1] # P
  /\ contains(split_ws(line)[1], P)

\* the lines of the answer to 'show lacp' that describe port P
OwnLines(P) == SelectSeq(split(Answer(1), "\n"), LAMBDA line : DescribesPort(line, P))

\* C23: LACP member status is keyed by the exact member port name: the flags
\* and counters returned by get_lacp_member_info(lag, P) are taken only from
\* the lines describing port P; lines of another port whose name contains P
\* (e.g. '2/10' when P = '2/1') never contribute to or overwrite the result.
C23_KeyedByExactPort ==
  (op = "get_lacp_member_info" /\ ret.kind = "return") =>
    ret = lacp_lines(OwnLines(arg.intf_name), arg.intf_name, <<>>)


(***************************************************************************)
(* The records of the summary list.                                        *)
(***************************************************************************)
\* the rows of the table: the lines between the first header line and the
\* first blank line after it that are not header lines themselves
DataRows ==
  SelectSeq(SubSeq(OutputLines, FirstHeader + 1, FirstBlankAfterHeader - 1),
            LAMBDA line : ~IsHeader(line))

\* the record of a row
RowRecord(row) ==
  <<split_ws(row)[1], split_ws(row)[2], split_ws(row)[5], split_ws(row)[3] = <<"Y">>>>

\* C24: each record emitted by get_port_channel_list is the tuple (name,
\* mode, primary_port, deployed) of the 1st, 2nd and 5th column of its row
\* and of whether the 3rd column is exactly 'Y'; port_channels reads the
\* mode and deployed from the positions they were written to: the record of
\* a LAG carries the mode of its row, and the LACP columns are fetched
\* exactly for the rows that say dynamic and 'Y'.
C24_RecordOfRow ==
  /\ op = "get_port_channel_list" =>
       /\ Len(loop.po_list) <= Len(DataRows)
       /\ \A k \in 1..Len(loop.po_list) : loop.po_list[k] = RowRecord(DataRows[k])
       /\ ret.kind = "return" => ret.val = loop.po_list
  /\ PcReturned =>
       \A k \in 1..Len(ret.val) :
          /\ ret.val[k]["aggregator_mode"] = LagRow(k)[2]
          /\ RowDynamicDeployed(k) <=>
               \E i \in 1..Len(Segment(k)) : IsDot3adGet(Segment(k)[i])

\* a list of two records, one deployed and one not, whose primary port is
\* not what the 4th column holds
C24_Witness ==
  /\ op = "get_port_channel_list"
  /\ ret.kind = "return"
  /\ Len(ret.val) = 2
  /\ ret.val[1][4]
  /\ ~ret.val[2][4]
  /\ ret.val[1][3] # split_ws(DataRows[1])[4]


(***************************************************************************)
(* The batch of create_port_channel.                                       *)
(***************************************************************************)
ValidCreateArgs ==
  /\ ~arg.desc_none
  /\ Len(arg.desc) >= 1
  /\ Len(arg.desc) <= 64
  /\ arg.portchannel_num >= 1
  /\ arg.portchannel_num <= 256
  /\ Len(arg.ports) >= 1

RECURSIVE MemberPorts(_, _)
\* ' <int_type> <port>' for each port of the list, in its order
MemberPorts(int_type, ports) ==
  IF ports = <<>> THEN <<>>
  ELSE <<" ", int_type, " ">> \o Head(ports) \o MemberPorts(int_type, Tail(ports))

\* the five commands, in the order the device must see them
ExpectedBatch ==
  <<<<"lag", " ">> \o arg.desc \o <<" ", arg.mode, " ", "id", " ">>
      \o str(arg.portchannel_num),
    <<"ports">> \o MemberPorts(arg.int_type, arg.ports),
    <<"primary-port", " ">> \o arg.ports[1],
    <<"deploy">>,
    <<"enable">> \o MemberPorts(arg.int_type, arg.ports)>>

\* C25: create_port_channel with valid arguments issues exactly one cli-set
\* batch whose commands are, in this order, 'lag <desc> <mode> id <num>',
\* 'ports <all member ports in the given order>', 'primary-port <first
\* port>', 'deploy', 'enable <all member ports>'; it returns True only when
\* no line of the batch output holds 'Error', and fails otherwise.
C25_CreateBatch ==
  (op = "create_port_channel" /\ ValidCreateArgs) =>
    /\ Len(reqs) = 1
    /\ reqs[1].handler = "cli-set"
    /\ reqs[1].payload = ExpectedBatch
    /\ IF ErrorLines = {} THEN ret = Return(TRUE) ELSE RaisedValueError

\* a batch for the ports 2/2 and 2/1, in that order, answered with lines
\* that hold no error
C25_Witness ==
  /\ op = "create_port_channel"
  /\ ValidCreateArgs
  /\ arg.ports = <<Port_2_2, Port_2_1>>
  /\ ret = Return(TRUE)
  /\ Len(OutputLines) > 1


(***************************************************************************)
(* The removal of a port-channel.                                          *)
(***************************************************************************)
\* the positions of the snmp-set requests of the call
SnmpSets == {i \in 1..Len(reqs) : reqs[i].handler = "snmp-set"}

\* C26: remove_port_channel(id): if no row of the LAG table walk has that
\* id, the call fails with ValueError and no snmp-set is issued; otherwise
\* exactly one snmp-set is issued, writing RowStatus value 6 (destroy) to the
\* row indexed by the length-prefixed encoding of the name of the first row
\* whose id matches, and the call returns True iff the callback's result is
\* true.
C26_RemoveFirstMatch ==
  op = "remove_port_channel" =>
    IF MatchingRows(reqs[1].answer, str(arg.port_int)) = {}
    THEN RaisedValueError /\ SnmpSets = {}
    ELSE /\ SnmpSets = {2}
         /\ Len(reqs) = 2
         /\ reqs[2].payload[2] = 6
         /\ HasIndex(reqs[2].payload[1], "fdryLinkAggregationGroupRowStatus",
                     FirstMatch(reqs[1].answer, str(arg.port_int)).name)
         /\ ret = Return(reqs[2].answer)

\* two rows of the walk have the id, under different names, and the device
\* refused the set
C26_Witness ==
  /\ op = "remove_port_channel"
  /\ Cardinality(MatchingRows(reqs[1].answer, str(arg.port_int))) = 2
  /\ reqs[1].answer[1].name # reqs[1].answer[2].name
  /\ SnmpSets = {2}
  /\ ret = Return(FALSE)


(***************************************************************************)
(* The commands of add_vlan_int.                                           *)
(***************************************************************************)
RECURSIVE Flatten(_)
\* the commands of a sequence of batches, one after the other
Flatten(batches) ==
  IF batches = <<>> THEN <<>> ELSE Head(batches) \o Flatten(Tail(batches))

\* the commands the device received in the call, in the order it got them
CommandsSent == Flatten([i \in 1..Len(reqs) |-> reqs[i].payload])

\* 'vlan <id>' (with the name, when one is given) for each id of the list
VlanCommands ==
  [i \in 1..Len(arg.vlan_id_list) |->
     <<"vlan", " ">> \o str(arg.vlan_id_list[i])
       \o (IF arg.desc_none THEN <<>> ELSE <<" ", "name", " ">> \o arg.desc)]

\* C27: add_vlan_int with a list of N VLAN ids sends each 'vlan <id>'
\* command to the device exactly once, in list order, and never issues a
\* cli-set with an empty command list; it returns True only if every cli-set
\* succeeded and raises ValueError if an invocation of the callback fails.
C27_EachVlanOnce ==
  op = "add_vlan_int" =>
    /\ \A i \in 1..Len(reqs) : reqs[i].payload # <<>>
    /\ arg.fail_at = 0 => CommandsSent = VlanCommands
    /\ IF arg.fail_at = 0 THEN ret = Return(PyBool(TRUE)) ELSE RaisedValueError


(***************************************************************************)
(* The counters and flags of a record of port_channels.                    *)
(***************************************************************************)
\* the last line of the 'show lacp' answer text that describes port P and
\* passes Test
LastLine(text, P, Test(_)) ==
  LET lines == split(text, "\n")
  IN lines[Max({i \in 1..Len(lines) : DescribesPort(lines[i], P) /\ Test(lines[i])})]

IsRole(line, role) == split_ws(line)[2] = role

\* the line of P with its counters: 'P Rx <rx> Tx <tx>'
CountsOf(text, P) ==
  split_ws(LastLine(text, P,
                    LAMBDA line : ~IsRole(line, Chars_ACTR) /\ ~IsRole(line, Chars_PRTR)))

\* the actor and the partner of P aggregate, collect and distribute
AllFlags(text, P) ==
  \A role \in {Chars_ACTR, Chars_PRTR} :
     LET cols == split_ws(LastLine(text, P, LAMBDA line : IsRole(line, role)))
     IN /\ cols[8] = <<"A", "g", "g">>
        /\ cols[10] = <<"C", "o", "l">>
        /\ cols[11] = <<"D", "i", "s">>

\* the answer to the 'show lacp' request made for the m-th member of LAG k
MemberScrape(k, m) ==
  LET i == CHOOSE i \in ShowLacpAt(k) : Cardinality({j \in ShowLacpAt(k) : j < i}) = m - 1
  IN Segment(k)[i].answer

\* C28: in every record returned by port_channels, rx-link-count and
\* tx-link-count equal the number of member ports whose LACP rx (tx) counter
\* is greater than 0 and lie between 0 and the number of entries of
\* 'interfaces'; a member's sync is '1' only if its actor and partner
\* aggregation, collection and distribution flags are all true, and a member
\* with sync '1' implies ready-agg = 1.
C28_RecordInvariant ==
  PcReturned =>
    \A k \in 1..Len(ret.val) :
       LET rec == ret.val[k]
           ifs == rec["interfaces"]
           name(m) == ifs[m]["interface-name"]
       IN /\ rec["rx-link-count"] \in 0..Len(ifs)
          /\ rec["tx-link-count"] \in 0..Len(ifs)
          /\ RowDynamicDeployed(k) =>
               /\ rec["rx-link-count"] =
                    Cardinality({m \in 1..Len(ifs) :
                                   int(CountsOf(MemberScrape(k, m), name(m))[3], 10) > 0})
               /\ rec["tx-link-count"] =
                    Cardinality({m \in 1..Len(ifs) :
                                   int(CountsOf(MemberScrape(k, m), name(m))[5], 10) > 0})
               /\ \A m \in 1..Len(ifs) :
                    ifs[m]["sync"] = "1" => AllFlags(MemberScrape(k, m), name(m))
          /\ ~RowDynamicDeployed(k) => \A m \in 1..Len(ifs) : ifs[m]["sync"] = "0"
          /\ (\E m \in 1..Len(ifs) : ifs[m]["sync"] = "1") => rec["ready-agg"] = 1

==========================================================================
